---- MODULE Spec2Model ----
(***************************************************************************)
(* Ticket PDF generation and pricing reconciliation of Ticketooz.com:      *)
(*   src/src/utils/invoiceUtils.ts      generateInvoiceNumber              *)
(*   src/src/components/TicketPDF.tsx   fetchPricingData, generateTicketPDF*)
(*                                                                         *)
(* Text is a sequence of one-character strings, so that slicing, padding   *)
(* and upper-casing are computed character by character.  Money is an      *)
(* integer amount; a quotient the code computes (unit price of the flat    *)
(* fallback, fee / 1.18) is kept as an exact fraction [n, d], so           *)
(* floating-point rounding is outside the model.                           *)
(*                                                                         *)
(* Specifications:                                                         *)
(*   Spec         one generateTicketPDF invocation, cut at its awaits      *)
(*   SpecEvent    the same, over the event, date and ticket selections     *)
(*   SpecLive     the same, with addResponsiveText line by line, fair      *)
(*   SpecTwo      two invocations interleaved at their awaits              *)
(*   SpecPricing  fetchPricingData on its own                              *)
(*   SpecInvoice  generateInvoiceNumber on its own                         *)
(***************************************************************************)
EXTENDS Integers, Sequences, FiniteSets, TLC

VARIABLES pc, env, ticketData, booking, backendPricing, customerInfo,
          formattedBookingId, sections, bookingIdLine, qrPayload, payment,
          saved, invArgs, invOut, categoryResult, qrDrawn,
          qrBox, dateTimeLine, customerLines, ticketSummary, flow, calls,
          layout, cursor, hook

vars == <<pc, env, ticketData, booking, backendPricing, customerInfo,
          formattedBookingId, sections, bookingIdLine, qrPayload, payment,
          saved, invArgs, invOut, categoryResult, qrDrawn,
          qrBox, dateTimeLine, customerLines, ticketSummary, flow, calls,
          layout, cursor, hook>>

(***************************************************************************)
(* Bounds of the model.                                                    *)
(***************************************************************************)
MaxIdLen == 7
MaxSeats == 2
MaxQty == 2
MaxLines == 3

SeqsUpTo(S, n) == UNION {[1..k -> S] : k \in 0..n}

(***************************************************************************)
(* JavaScript string primitives used by the code.                          *)
(***************************************************************************)
DigitChars == <<"0", "1", "2", "3", "4", "5", "6", "7", "8", "9">>

LowerChars == <<"a", "b", "c", "d", "e", "f", "g", "h", "i", "j", "k", "l", "m",
                "n", "o", "p", "q", "r", "s", "t", "u", "v", "w", "x", "y", "z">>

UpperChars == <<"A", "B", "C", "D", "E", "F", "G", "H", "I", "J", "K", "L", "M",
                "N", "O", "P", "Q", "R", "S", "T", "U", "V", "W", "X", "Y", "Z">>

Range(s) == {s[i] : i \in 1..Len(s)}

\* the number NaN, which the getters of an invalid Date return; no getter
\* returns a negative number for the dates of this model
NaN == -1

\* a + b on numbers
Plus(a, b) == IF a = NaN \/ b = NaN THEN NaN ELSE a + b

\* Number.prototype.toString() of a non-negative integer or NaN
RECURSIVE NumberToString(_)
NumberToString(n) ==
    IF n = NaN THEN <<"N", "a", "N">>
    ELSE IF n < 10 THEN <<DigitChars[n + 1]>>
    ELSE NumberToString(n \div 10) \o <<DigitChars[(n % 10) + 1]>>

\* String.prototype.slice(-k)
SliceLast(s, k) == IF Len(s) <= k THEN s ELSE SubSeq(s, Len(s) - k + 1, Len(s))

\* String.prototype.padStart(width, ch)
PadStartNever(s, width, ch) == s
RECURSIVE PadStart(_, _, _)
PadStart(s, width, ch) == IF Len(s) >= width THEN s ELSE PadStart(<<ch>> \o s, width, ch)

UpperOfChar(c) ==
    IF c \in Range(LowerChars)
    THEN UpperChars[CHOOSE i \in 1..Len(LowerChars) : LowerChars[i] = c]
    ELSE c

\* String.prototype.toUpperCase() on ASCII text
ToUpperCase(s) == [i \in 1..Len(s) |-> UpperOfChar(s[i])]

(***************************************************************************)
(* new Date(iso) and its local-time getters.  A booking date is the ISO    *)
(* instant y-mo-dTHH:MMZ, min = minutes since 00:00 UTC; tz is the offset  *)
(* of the runtime's time zone from UTC in minutes (at most a day).         *)
(***************************************************************************)
IsLeapYear(y) == (y % 4 = 0 /\ y % 100 # 0) \/ y % 400 = 0

DaysInMonth(y, mo) ==
    IF mo = 2 THEN (IF IsLeapYear(y) THEN 29 ELSE 28)
    ELSE IF mo \in {4, 6, 9, 11} THEN 30 ELSE 31

NextDay(dt) ==
    IF dt.d < DaysInMonth(dt.y, dt.mo) THEN [y |-> dt.y, mo |-> dt.mo, d |-> dt.d + 1]
    ELSE IF dt.mo < 12 THEN [y |-> dt.y, mo |-> dt.mo + 1, d |-> 1]
    ELSE [y |-> dt.y + 1, mo |-> 1, d |-> 1]

PrevDay(dt) ==
    IF dt.d > 1 THEN [y |-> dt.y, mo |-> dt.mo, d |-> dt.d - 1]
    ELSE IF dt.mo > 1 THEN [y |-> dt.y, mo |-> dt.mo - 1, d |-> DaysInMonth(dt.y, dt.mo - 1)]
    ELSE [y |-> dt.y - 1, mo |-> 12, d |-> 31]

\* the calendar date the local getters read
LocalDate(dt, tz) ==
    IF dt.min + tz >= 1440 THEN NextDay(dt)
    ELSE IF dt.min + tz < 0 THEN PrevDay(dt)
    ELSE [y |-> dt.y, mo |-> dt.mo, d |-> dt.d]

\* new Date(text) of a text that is not a date: the invalid Date
InvalidDate == [y |-> 0, mo |-> 0, d |-> 0, min |-> 0]
IsInvalidDate(dt) == dt.mo = 0

GetFullYear(dt, tz) == IF IsInvalidDate(dt) THEN NaN ELSE LocalDate(dt, tz).y
GetMonth(dt, tz) == IF IsInvalidDate(dt) THEN NaN ELSE LocalDate(dt, tz).mo - 1
GetDate(dt, tz) == IF IsInvalidDate(dt) THEN NaN ELSE LocalDate(dt, tz).d

\* the local time of day, in minutes since midnight
LocalMinutes(dt, tz) == (dt.min + tz + 1440) % 1440

InvalidDateText == <<"I", "n", "v", "a", "l", "i", "d", " ", "D", "a", "t", "e">>

\* toLocaleDateString('en-US', {year: 'numeric', month: '2-digit', day: '2-digit'})
ToLocaleDateString(dt, tz) ==
    IF IsInvalidDate(dt) THEN InvalidDateText
    ELSE PadStart(NumberToString(LocalDate(dt, tz).mo), 2, "0") \o <<"/">>
         \o PadStart(NumberToString(LocalDate(dt, tz).d), 2, "0") \o <<"/">>
         \o NumberToString(LocalDate(dt, tz).y)

\* a time of day on the 12-hour clock: hh:mm AM or hh:mm PM
TwelveHourClock(h, m) ==
    PadStart(NumberToString(IF h % 12 = 0 THEN 12 ELSE h % 12), 2, "0") \o <<":">>
    \o PadStart(NumberToString(m), 2, "0")
    \o (IF h < 12 THEN <<" ", "A", "M">> ELSE <<" ", "P", "M">>)

\* toLocaleTimeString('en-US', {hour: '2-digit', minute: '2-digit', hour12: true})
ToLocaleTimeString(dt, tz) ==
    IF IsInvalidDate(dt) THEN InvalidDateText
    ELSE TwelveHourClock(LocalMinutes(dt, tz) \div 60, LocalMinutes(dt, tz) % 60)

(***************************************************************************)
(* generateInvoiceNumber(bookingId, createdAt)                             *)
(***************************************************************************)
InvPrefix == <<"I", "N", "V", "-">>

GenerateInvoiceNumber(bookingId, createdAt, tz) ==
    LET year == SliceLast(NumberToString(GetFullYear(createdAt, tz)), 2)
        month == PadStart(NumberToString(Plus(GetMonth(createdAt, tz), 1)), 2, "0")
        day == PadStart(NumberToString(GetDate(createdAt, tz)), 2, "0")
        bookingIdSuffix == ToUpperCase(SliceLast(bookingId, 6))
    IN InvPrefix \o year \o month \o day \o <<"-">> \o bookingIdSuffix

(***************************************************************************)
(* Inputs of the invoice-number specification.                             *)
(***************************************************************************)
IdChars == {"a", "7", "-"}
BookingIds == SeqsUpTo(IdChars, MaxIdLen)

BookingDates ==
    { [y |-> 2025, mo |-> 3, d |-> 7, min |-> 600],     \* 2025-03-07T10:00Z
      [y |-> 2025, mo |-> 3, d |-> 7, min |-> 1410],    \* 2025-03-07T23:30Z
      [y |-> 2024, mo |-> 2, d |-> 28, min |-> 1200],   \* 2024-02-28T20:00Z
      [y |-> 2025, mo |-> 12, d |-> 31, min |-> 1380],  \* 2025-12-31T23:00Z
      [y |-> 2026, mo |-> 1, d |-> 1, min |-> 120],     \* 2026-01-01T02:00Z
      [y |-> 2009, mo |-> 11, d |-> 5, min |-> 720],    \* 2009-11-05T12:00Z
      [y |-> 7, mo |-> 5, d |-> 9, min |-> 720] }       \* 0007-05-09T12:00Z

TimeZoneOffsets == {-480, 0, 330}

(***************************************************************************)
(* Records read from the data source.                                      *)
(*   A seat's optional quantity fields are none, a number or a digit       *)
(*   string; an absent label is "" and an absent price is 0, which the     *)
(*   code's || chains treat alike.                                         *)
(***************************************************************************)
NoQty == [k |-> "none", n |-> 0, s |-> <<>>]
NumQty(n) == [k |-> "num", n |-> n, s |-> <<>>]
StrQty(s) == [k |-> "str", n |-> 0, s |-> s]

\* JavaScript truthiness of an optional quantity field
Truthy(q) ==
    CASE q.k = "none" -> FALSE
      [] q.k = "num" -> q.n # 0
      [] q.k = "str" -> q.s # <<>>

DigitValue(c) == CHOOSE v \in 0..9 : DigitChars[v + 1] = c

\* parseInt(s, 10) of a digit string
RECURSIVE ParseInt(_)
ParseInt(s) ==
    IF Len(s) = 0 THEN 0
    ELSE 10 * ParseInt(SubSeq(s, 1, Len(s) - 1)) + DigitValue(s[Len(s)])

\* typeof v === 'string' ? parseInt(v, 10) : v
Coerce(q) == IF q.k = "str" THEN ParseInt(q.s) ELSE q.n

SeatPool ==
    { [seat_category |-> "VIP", category |-> "", price |-> 5, base_price |-> 0,
       quantity |-> NoQty, booked_quantity |-> NoQty],
      [seat_category |-> "VIP", category |-> "", price |-> 3, base_price |-> 0,
       quantity |-> NumQty(2), booked_quantity |-> NoQty],
      [seat_category |-> "", category |-> "Balcony", price |-> 0, base_price |-> 4,
       quantity |-> StrQty(<<"2">>), booked_quantity |-> NumQty(3)],
      [seat_category |-> "", category |-> "", price |-> 0, base_price |-> 0,
       quantity |-> NumQty(0), booked_quantity |-> StrQty(<<"3">>)],
      [seat_category |-> "General", category |-> "Balcony", price |-> 0, base_price |-> 0,
       quantity |-> NoQty, booked_quantity |-> NoQty] }

NoSeats == [k |-> "null", a |-> <<>>]
SeatArray(a) == [k |-> "array", a |-> a]
SeatNumbers == {NoSeats} \cup {SeatArray(a) : a \in SeqsUpTo(SeatPool, MaxSeats)}

\* <<total_price, convenience_fee>> of a stored booking
StoredTotals == {<<0, 0>>, <<10, 0>>, <<12, 2>>}

\* customer_name, customer_email, customer_phone ("" when the column is empty)
StoredCustomers ==
    { [name |-> <<>>, email |-> <<>>, phone |-> <<>>],
      [name |-> <<>>, email |-> <<"b", "@", "z">>, phone |-> <<"8">>],
      [name |-> <<"A", "n", " ", "L", "i">>, email |-> <<>>, phone |-> <<"9">>],
      [name |-> <<"A", "n">>, email |-> <<"a", "@", "x">>, phone |-> <<"9">>] }

\* a time of day as the events table stores it ("19:30"), or no value
NoTime == [k |-> "none", h |-> 0, m |-> 0]
TimeOfDay(h, m) == [k |-> "time", h |-> h, m |-> m]

\* the joined event_occurrences row: occurrence_date is a calendar date
\* ("2025-06-01"), occurrence_time a time of day
NoOccurrence ==
    [k |-> "null", occurrence_date |-> [y |-> 0, mo |-> 0, d |-> 0], occurrence_time |-> NoTime]

StoredOccurrence ==
    [k |-> "data", occurrence_date |-> [y |-> 2025, mo |-> 6, d |-> 1],
     occurrence_time |-> TimeOfDay(20, 0)]

\* event.event_time of the joined events row
StoredEventTime == TimeOfDay(19, 30)

BookingRows ==
    { [quantity |-> q, total_price |-> t[1], convenience_fee |-> t[2],
       event_occurrence_id |-> o, occurrence_ticket_category_id |-> c,
       seat_numbers |-> s, customer |-> cu,
       event_occurrences |-> NoOccurrence, event_time |-> NoTime] :
        q \in 1..MaxQty, t \in StoredTotals, o \in BOOLEAN, c \in BOOLEAN,
        s \in SeatNumbers, cu \in StoredCustomers }

NoBooking == [k |-> "none"]
LoadedBooking(row) == [k |-> "row", row |-> row]

\* what a query settles with: {data, error} or a rejection
FetchFailures == {"error", "empty", "throws"}

NoCategory == [k |-> "none", category_name |-> "", base_price |-> 0]
CategoryResults ==
    { [k |-> "found", category_name |-> "Gold", base_price |-> p] : p \in {0, 6} }
    \cup { [k |-> f, category_name |-> "", base_price |-> 0] : f \in FetchFailures }

(***************************************************************************)
(* fetchPricingData: the computation after the queries have settled.       *)
(***************************************************************************)
Frac(n, d) == [n |-> n, d |-> d]

Entry(category, quantity, unitPrice, totalPrice) ==
    [category |-> category, quantity |-> quantity, unitPrice |-> unitPrice,
     totalPrice |-> totalPrice]

EmptyAcc == [basePrice |-> 0, actualTotalQuantity |-> 0, categoryBreakdown |-> <<>>]

\* lines 158-185: the occurrence-ticket-category path
OccurrencePath(b, cat) ==
    IF b.event_occurrence_id /\ b.occurrence_ticket_category_id /\ cat.k = "found"
    THEN [basePrice |-> cat.base_price * b.quantity,
          actualTotalQuantity |-> b.quantity,
          categoryBreakdown |->
              <<Entry(cat.category_name, b.quantity, Frac(cat.base_price, 1),
                      cat.base_price * b.quantity)>>]
    ELSE EmptyAcc

SeatCategory(seat) ==
    IF seat.seat_category # "" THEN seat.seat_category
    ELSE IF seat.category # "" THEN seat.category
    ELSE "General"

SeatPrice(seat) ==
    IF seat.price # 0 THEN seat.price
    ELSE IF seat.base_price # 0 THEN seat.base_price
    ELSE 0

SeatQuantity(seat) ==
    IF Truthy(seat.quantity) THEN Coerce(seat.quantity)
    ELSE IF Truthy(seat.booked_quantity) THEN Coerce(seat.booked_quantity)
    ELSE 1

\* one forEach step on categoryCountMap (kept in insertion order)
AddSeatOverwrite(map, seat) ==
    LET category == SeatCategory(seat)
        has == \E i \in 1..Len(map) : map[i].category = category
        m0 == IF has THEN map
              ELSE Append(map, Entry(category, 0, Frac(SeatPrice(seat), 1), 0))
    IN [i \in 1..Len(m0) |->
           IF m0[i].category = category
           THEN [m0[i] EXCEPT !.quantity = SeatQuantity(seat),
                              !.totalPrice = SeatPrice(seat) * SeatQuantity(seat)]
           ELSE m0[i]]

AddSeat(map, seat) ==
    LET category == SeatCategory(seat)
        has == \E i \in 1..Len(map) : map[i].category = category
        m0 == IF has THEN map
              ELSE Append(map, Entry(category, 0, Frac(SeatPrice(seat), 1), 0))
    IN [i \in 1..Len(m0) |->
           IF m0[i].category = category
           THEN [m0[i] EXCEPT !.quantity = @ + SeatQuantity(seat),
                              !.totalPrice = @ + SeatPrice(seat) * SeatQuantity(seat)]
           ELSE m0[i]]

RECURSIVE CategoryCountMap(_)
CategoryCountMap(seats) ==
    IF Len(seats) = 0 THEN <<>>
    ELSE AddSeat(CategoryCountMap(SubSeq(seats, 1, Len(seats) - 1)), seats[Len(seats)])

RECURSIVE TotalQuantityFromSeats(_)
TotalQuantityFromSeats(seats) ==
    IF Len(seats) = 0 THEN 0
    ELSE TotalQuantityFromSeats(Tail(seats)) + SeatQuantity(Head(seats))

RECURSIVE BasePriceFromSeats(_)
BasePriceFromSeats(seats) ==
    IF Len(seats) = 0 THEN 0
    ELSE BasePriceFromSeats(Tail(seats)) + SeatPrice(Head(seats)) * SeatQuantity(Head(seats))

\* lines 187-228: the seat_numbers path
SeatPath(b, acc) ==
    IF Len(acc.categoryBreakdown) = 0 /\ b.seat_numbers.k = "array"
    THEN [basePrice |-> acc.basePrice + BasePriceFromSeats(b.seat_numbers.a),
          actualTotalQuantity |-> TotalQuantityFromSeats(b.seat_numbers.a),
          categoryBreakdown |-> CategoryCountMap(b.seat_numbers.a)]
    ELSE acc

\* lines 230-243: the final fallback calculation
FinalFallback(b, acc) ==
    IF acc.basePrice = 0
    THEN LET basePrice == b.total_price - b.convenience_fee
         IN [basePrice |-> basePrice,
             actualTotalQuantity |-> b.quantity,
             categoryBreakdown |->
                 IF Len(acc.categoryBreakdown) = 0
                 THEN <<Entry("General Admission", b.quantity,
                              Frac(basePrice, b.quantity), basePrice)>>
                 ELSE acc.categoryBreakdown]
    ELSE acc

\* lines 245-247: fee / 1.18 = 50 fee / 59, and the remainder 9 fee / 59
ConvenienceFeeBeforeGst(fee) == IF fee > 0 THEN Frac(50 * fee, 59) ELSE Frac(0, 1)
GstAmount(fee) == IF fee > 0 THEN Frac(9 * fee, 59) ELSE Frac(0, 1)

\* lines 147-155: occurrenceData, set when the booking has an occurrence id and
\* the joined occurrence row
OccurrenceData(b) ==
    IF b.event_occurrence_id /\ b.event_occurrences.k = "data" THEN b.event_occurrences
    ELSE NoOccurrence

NullPricing ==
    [k |-> "null", basePrice |-> 0, convenienceFee |-> Frac(0, 1), gstAmount |-> Frac(0, 1),
     totalPrice |-> 0, categoryBreakdown |-> <<>>, actualTotalQuantity |-> 0,
     customerData |-> [name |-> <<>>, email |-> <<>>, phone |-> <<>>],
     occurrenceData |-> NoOccurrence, eventTime |-> NoTime]

PendingPricing == [NullPricing EXCEPT !.k = "pending"]

\* lines 136-273: the BackendPricing value returned for a loaded booking
Reconcile(b, cat) ==
    LET acc == FinalFallback(b, SeatPath(b, OccurrencePath(b, cat)))
    IN [k |-> "pricing",
        basePrice |-> acc.basePrice,
        convenienceFee |-> ConvenienceFeeBeforeGst(b.convenience_fee),
        gstAmount |-> GstAmount(b.convenience_fee),
        totalPrice |-> b.total_price,
        categoryBreakdown |-> acc.categoryBreakdown,
        actualTotalQuantity |-> acc.actualTotalQuantity,
        customerData |-> b.customer,
        occurrenceData |-> OccurrenceData(b),
        eventTime |-> b.event_time]

(***************************************************************************)
(* generateTicketPDF: its input and the pieces of the document it writes.  *)
(***************************************************************************)
NoCustomerInfo ==
    [k |-> "undefined", firstName |-> <<>>, lastName |-> <<>>, email |-> <<>>, phone |-> <<>>]

GivenCustomerInfo ==
    [k |-> "given", firstName |-> <<"T">>, lastName |-> <<"D">>,
     email |-> <<"t", "@", "y">>, phone |-> <<"1">>]

ThrownCustomerInfo == [NoCustomerInfo EXCEPT !.k = "throws"]

\* totalPrice, convenienceFee and basePrice as the caller supplies them
TicketPrices ==
    { [hasTotal |-> TRUE, totalPrice |-> 12, convenienceFee |-> 2, basePrice |-> 10],
      [hasTotal |-> TRUE, totalPrice |-> 12, convenienceFee |-> 2, basePrice |-> 8],
      [hasTotal |-> TRUE, totalPrice |-> 10, convenienceFee |-> 0, basePrice |-> 10],
      [hasTotal |-> FALSE, totalPrice |-> 0, convenienceFee |-> 0, basePrice |-> 0] }

\* ticketData.booking.id left out by the caller: the value undefined, which is
\* not a text (no booking id has a character "undefined")
UndefinedId == <<"undefined">>

\* invoiceUtils.ts line 10: bookingId.slice on undefined is a TypeError
GenerateInvoiceNumberThrows(bookingId) == bookingId = UndefinedId

PdfBookingIds ==
    { <<"a", "b", "c", "1", "2", "3", "4", "5", "6", "7", "8", "9">>, <<"7", "a">>,
      <<>>, UndefinedId }

OtherBookingId == <<"d", "e", "f", "4", "5", "6", "7", "7", "7">>

\* is_combined and combined_booking_ids of ticketData.booking
CombinedShapes ==
    { [is_combined |-> FALSE, combined_booking_ids |-> <<>>],
      [is_combined |-> TRUE, combined_booking_ids |-> <<>>],
      [is_combined |-> TRUE, combined_booking_ids |-> <<OtherBookingId>>] }

PdfBookingDate == [y |-> 2025, mo |-> 3, d |-> 7, min |-> 1410]

\* ticketData.event: is_recurring, event_time and start_datetime
EventStart == [y |-> 2025, mo |-> 6, d |-> 14, min |-> 810]    \* 2025-06-14T13:30Z

PlainEvent == [is_recurring |-> FALSE, event_time |-> NoTime, start_datetime |-> EventStart]

TicketEvents ==
    { [is_recurring |-> r, event_time |-> et, start_datetime |-> s] :
        r \in BOOLEAN, et \in {NoTime, TimeOfDay(18, 15)}, s \in {EventStart, InvalidDate} }

\* ticketData.selectedSeats, selectedGeneralTickets and booking.seat_numbers
SelectedSeats ==
    { <<>>,
      << [category_name |-> "VIP", row_name |-> "A", seat_number |-> "1"],
         [category_name |-> "", row_name |-> "", seat_number |-> "7"],
         [category_name |-> "VIP", row_name |-> "A", seat_number |-> "2"] >> }

SelectedGeneralTickets == { <<>>, << [categoryName |-> "Silver", quantity |-> 2] >> }

TicketSeatNumbers ==
    { NoSeats, SeatArray(<<>>),
      SeatArray(<< [seat_category |-> "VIP", category |-> "", price |-> 5, base_price |-> 0,
                    quantity |-> NoQty, booked_quantity |-> NoQty],
                   [seat_category |-> "", category |-> "", price |-> 0, base_price |-> 0,
                    quantity |-> NumQty(0), booked_quantity |-> StrQty(<<"3">>)],
                   [seat_category |-> "VIP", category |-> "", price |-> 3, base_price |-> 0,
                    quantity |-> NumQty(2), booked_quantity |-> NoQty] >>) }

TicketDatas ==
    { [id |-> i, booking_date |-> PdfBookingDate, quantity |-> q, combined |-> c,
       customerInfo |-> ci, prices |-> p, event |-> PlainEvent, selectedSeats |-> <<>>,
       selectedGeneralTickets |-> <<>>, seat_numbers |-> NoSeats] :
        i \in PdfBookingIds, q \in 1..MaxQty, c \in CombinedShapes,
        ci \in {GivenCustomerInfo, NoCustomerInfo}, p \in TicketPrices }

\* the inputs that vary the event, the dates and the ticket selections
EventTicketDatas ==
    { [id |-> <<"7", "a">>, booking_date |-> bd, quantity |-> q,
       combined |-> [is_combined |-> FALSE, combined_booking_ids |-> <<>>],
       customerInfo |-> GivenCustomerInfo,
       prices |-> [hasTotal |-> TRUE, totalPrice |-> 12, convenienceFee |-> 2,
                   basePrice |-> 10],
       event |-> e, selectedSeats |-> ss, selectedGeneralTickets |-> sg,
       seat_numbers |-> sn] :
        bd \in {PdfBookingDate, InvalidDate}, q \in 1..MaxQty, e \in TicketEvents,
        ss \in SelectedSeats, sg \in SelectedGeneralTickets, sn \in TicketSeatNumbers }

NoTicketData ==
    [id |-> <<>>, booking_date |-> PdfBookingDate, quantity |-> 1,
     combined |-> [is_combined |-> FALSE, combined_booking_ids |-> <<>>],
     customerInfo |-> NoCustomerInfo,
     prices |-> [hasTotal |-> FALSE, totalPrice |-> 0, convenienceFee |-> 0, basePrice |-> 0],
     event |-> PlainEvent, selectedSeats |-> <<>>, selectedGeneralTickets |-> <<>>,
     seat_numbers |-> NoSeats]

Origin == <<"h", "t", "t", "p", "s", ":", "/", "/", "t", ".", "c", "o">>

Environments == { [tz |-> z, origin |-> Origin] : z \in {0, 330} }

\* fullName.trim().split(' ').filter(part => part.length > 0)
RECURSIVE NameParts(_, _)
NameParts(s, word) ==
    IF Len(s) = 0 THEN (IF Len(word) = 0 THEN <<>> ELSE <<word>>)
    ELSE IF Head(s) = " "
         THEN (IF Len(word) = 0 THEN <<>> ELSE <<word>>) \o NameParts(Tail(s), <<>>)
         ELSE NameParts(Tail(s), Append(word, Head(s)))

\* parts.join(' ')
RECURSIVE JoinWithSpace(_)
JoinWithSpace(parts) ==
    IF Len(parts) = 0 THEN <<>>
    ELSE IF Len(parts) = 1 THEN parts[1]
    ELSE parts[1] \o <<" ">> \o JoinWithSpace(Tail(parts))

\* a || b on text
OrElse(a, b) == IF Len(a) > 0 THEN a ELSE b

\* lines 472-507: customerInfo taken from the booking row when it has a name
ResolveCustomerInfo(td, bp) ==
    IF bp.k = "pricing" /\ Len(bp.customerData.name) > 0
    THEN IF td.customerInfo.k = "undefined"
            /\ (Len(bp.customerData.email) = 0 \/ Len(bp.customerData.phone) = 0)
         THEN ThrownCustomerInfo
         ELSE LET nameParts == NameParts(bp.customerData.name, <<>>)
              IN [k |-> "given",
                  firstName |-> IF Len(nameParts) >= 1 THEN nameParts[1] ELSE <<>>,
                  lastName |-> IF Len(nameParts) >= 2 THEN JoinWithSpace(Tail(nameParts))
                               ELSE <<>>,
                  email |-> OrElse(bp.customerData.email, td.customerInfo.email),
                  phone |-> OrElse(bp.customerData.phone, td.customerInfo.phone)]
    ELSE td.customerInfo

VerifyPath == <<"/", "v", "e", "r", "i", "f", "y", "-", "t", "i", "c", "k", "e", "t", "/">>

\* line 711: `${window.location.origin}/verify-ticket/${formattedBookingId}`
VerificationUrlOfRawId(origin, bookingId, formatted) == origin \o VerifyPath \o bookingId
VerificationUrl(origin, bookingId, formatted) == origin \o VerifyPath \o formatted

\* line 850: `ticket-${formattedBookingId}.pdf`
FileName(formatted) ==
    <<"t", "i", "c", "k", "e", "t", "-">> \o formatted \o <<".", "p", "d", "f">>

\* String.prototype.slice(0, k)
SliceFirst(s, k) == IF Len(s) <= k THEN s ELSE SubSeq(s, 1, k)

NoBookingIdLine == [label |-> "", lines |-> <<>>]

\* lines 687-700: the booking id lines under Customer Information
BookingIdDisplay(td, formatted, tz) ==
    IF td.combined.is_combined /\ Len(td.combined.combined_booking_ids) > 0
    THEN [label |-> "Combined Booking IDs:",
          lines |-> [i \in 1..Len(td.combined.combined_booking_ids) |->
              LET formattedCombinedId ==
                      GenerateInvoiceNumber(td.combined.combined_booking_ids[i],
                                            td.booking_date, tz)
                  shortId == SliceFirst(formattedCombinedId, 20)
                             \o (IF Len(formattedCombinedId) > 20 THEN <<".", ".", ".">>
                                 ELSE <<>>)
              IN NumberToString(i) \o <<".", " ">> \o shortId]]
    ELSE [label |-> "Booking ID:", lines |-> <<formatted>>]

NoPayment ==
    [ticketLines |-> <<>>, feeLine |-> <<>>, gstLine |-> <<>>, totalLine |-> <<>>]

\* the fee and GST lines: shown when the pre-tax fee is positive
FeeLines(fee, gst) ==
    [feeLine |-> IF fee.n > 0 THEN <<fee>> ELSE <<>>,
     gstLine |-> IF fee.n > 0 /\ gst.n > 0 THEN <<gst>> ELSE <<>>]

\* lines 756-817: the amounts of the Payment Summary
PaymentSummary(td, bp) ==
    IF bp.k = "pricing"
    THEN LET f == FeeLines(bp.convenienceFee, bp.gstAmount)
         IN [ticketLines |->
                 IF Len(bp.categoryBreakdown) > 0
                 THEN [i \in 1..Len(bp.categoryBreakdown) |-> bp.categoryBreakdown[i].totalPrice]
                 ELSE <<bp.basePrice>>,
             feeLine |-> f.feeLine, gstLine |-> f.gstLine,
             totalLine |-> <<bp.totalPrice>>]
    ELSE LET totalPrice == td.prices.totalPrice
             convenienceFee == td.prices.convenienceFee
             basePrice == totalPrice - convenienceFee
             f == FeeLines(ConvenienceFeeBeforeGst(convenienceFee), GstAmount(convenienceFee))
         IN [ticketLines |-> <<basePrice>>,
             feeLine |-> f.feeLine, gstLine |-> f.gstLine,
             totalLine |-> <<totalPrice>>]

\* line 816: totalPrice.toFixed(2) throws a TypeError when ticketData has no totalPrice
PaymentSummaryThrows(td, bp) == bp.k # "pricing" /\ ~td.prices.hasTotal

\* lines 574-621: the text written under "Date & Time:"
DateTimeLine(td, bp, tz) ==
    LET at == <<" ", "a", "t", " ">>
    IN IF td.event.is_recurring /\ bp.k = "pricing" /\ bp.occurrenceData.k = "data"
       THEN LET od == bp.occurrenceData.occurrence_date
                \* new Date("2025-06-01"): a date-only text is midnight UTC
                occurrenceDate == [y |-> od.y, mo |-> od.mo, d |-> od.d, min |-> 0]
                dateStr == ToLocaleDateString(occurrenceDate, tz)
                eventTime == IF bp.eventTime.k = "time" THEN bp.eventTime
                             ELSE td.event.event_time
                \* setHours(hours, minutes) and `${date}T${time}` are both local times
                timeStr == IF eventTime.k = "time"
                           THEN TwelveHourClock(eventTime.h, eventTime.m)
                           ELSE TwelveHourClock(bp.occurrenceData.occurrence_time.h,
                                                bp.occurrenceData.occurrence_time.m)
            IN dateStr \o at \o timeStr
       ELSE ToLocaleDateString(td.event.start_datetime, tz) \o at
            \o ToLocaleTimeString(td.event.start_datetime, tz)

NoTicketSummary == [kind |-> "none", parts |-> <<>>]

SummaryPart(category, quantity) == [category |-> category, quantity |-> quantity]

\* lines 382-394: categoryMap of the raw seat array, in insertion order
RECURSIVE CategoryMap(_)
CategoryMap(seats) ==
    IF Len(seats) = 0 THEN <<>>
    ELSE LET map == CategoryMap(SubSeq(seats, 1, Len(seats) - 1))
             seat == seats[Len(seats)]
             category == SeatCategory(seat)
             quantity == SeatQuantity(seat)
         IN IF \E i \in 1..Len(map) : map[i].category = category
            THEN [i \in 1..Len(map) |->
                     IF map[i].category = category
                     THEN SummaryPart(category, map[i].quantity + quantity)
                     ELSE map[i]]
            ELSE Append(map, SummaryPart(category, quantity))

\* lines 370-400: the "category x quantity" parts, joined with ", "
GeneralSummarySelectionsFirst(td, bp) ==
    IF Len(td.selectedGeneralTickets) > 0
    THEN [i \in 1..Len(td.selectedGeneralTickets) |->
             SummaryPart(td.selectedGeneralTickets[i].categoryName,
                         td.selectedGeneralTickets[i].quantity)]
    ELSE IF td.event.is_recurring /\ bp.k = "pricing" /\ Len(bp.categoryBreakdown) > 0
    THEN [i \in 1..Len(bp.categoryBreakdown) |->
             SummaryPart(bp.categoryBreakdown[i].category, bp.categoryBreakdown[i].quantity)]
    ELSE IF td.seat_numbers.k = "array" THEN CategoryMap(td.seat_numbers.a)
    ELSE <<SummaryPart("General", td.quantity)>>

GeneralSummary(td, bp) ==
    IF td.event.is_recurring /\ bp.k = "pricing" /\ Len(bp.categoryBreakdown) > 0
    THEN [i \in 1..Len(bp.categoryBreakdown) |->
             SummaryPart(bp.categoryBreakdown[i].category, bp.categoryBreakdown[i].quantity)]
    ELSE IF Len(td.selectedGeneralTickets) > 0
    THEN [i \in 1..Len(td.selectedGeneralTickets) |->
             SummaryPart(td.selectedGeneralTickets[i].categoryName,
                         td.selectedGeneralTickets[i].quantity)]
    ELSE IF td.seat_numbers.k = "array" THEN CategoryMap(td.seat_numbers.a)
    ELSE <<SummaryPart("General", td.quantity)>>

\* lines 409-420: seatsByCategory of the selected seats, in insertion order; a
\* part is "category: seat, seat"
RECURSIVE SeatsByCategory(_)
SeatsByCategory(selected) ==
    IF Len(selected) = 0 THEN <<>>
    ELSE LET map == SeatsByCategory(SubSeq(selected, 1, Len(selected) - 1))
             seat == selected[Len(selected)]
             category == IF seat.category_name # "" THEN seat.category_name ELSE "General"
             seatNumber == <<seat.row_name, seat.seat_number>>
         IN IF \E i \in 1..Len(map) : map[i].category = category
            THEN [i \in 1..Len(map) |->
                     IF map[i].category = category
                     THEN [map[i] EXCEPT !.seats = Append(@, seatNumber)]
                     ELSE map[i]]
            ELSE Append(map, [category |-> category, seats |-> <<seatNumber>>])

\* lines 358-437: what the Ticket Information block shows
TicketBreakdown(td, bp) ==
    IF Len(td.selectedSeats) = 0
    THEN [kind |-> "general", parts |-> GeneralSummary(td, bp)]
    ELSE [kind |-> "seats", parts |-> SeatsByCategory(td.selectedSeats)]

\* String.prototype.trim() on spaces
RECURSIVE Trim(_)
Trim(s) ==
    IF Len(s) = 0 THEN s
    ELSE IF Head(s) = " " THEN Trim(Tail(s))
    ELSE IF s[Len(s)] = " " THEN Trim(SubSeq(s, 1, Len(s) - 1))
    ELSE s

GuestUser == <<"G", "u", "e", "s", "t", " ", "U", "s", "e", "r">>

\* lines 663-685: the Name, Email and Phone lines
CustomerLines(ci) ==
    LET fullName == Trim(ci.firstName
                         \o (IF Len(ci.lastName) > 0 THEN <<" ">> \o ci.lastName ELSE <<>>))
    IN [name |-> IF Len(fullName) > 0 THEN fullName ELSE GuestUser,
        email |-> ci.email,
        phone |-> ci.phone]

\* what is drawn at the QR position besides the image
NoQrBox == [border |-> FALSE, image |-> FALSE, texts |-> <<>>]

\* lines 725-728: the image and its caption
QrImageBox == [border |-> FALSE, image |-> TRUE, texts |-> <<"Scan to verify">>]

\* lines 730-738: the catch branch draws the outline of the QR square and two texts
QrPlaceholderUnlabelled == [border |-> TRUE, image |-> FALSE, texts |-> <<>>]
QrPlaceholderBox == [border |-> TRUE, image |-> FALSE, texts |-> <<"QR Code", "Error">>]

NoCustomerLines == [name |-> <<>>, email |-> <<>>, phone |-> <<>>]

(***************************************************************************)
(* addResponsiveText: lengths are in tenths of a millimetre, so that the   *)
(* line height 6.5 of the a4 page is the integer 65.                       *)
(***************************************************************************)
PageHeight == 2970
BottomMargin == 200
LineHeight == 65
NewPageStartY == 550

\* flow.state: idle, running (inside the forEach), returned
\* flow.startY: the y handed in; flow.drawn: the doc.text calls, in order
NoFlow == [state |-> "idle", lines |-> 0, currentY |-> 0, pages |-> 0, written |-> 0,
           startY |-> 0, drawn |-> <<>>]

\* lines 309-313: checkPageSpace
CheckPageSpaceFits(currentY, requiredSpace) == (currentY + requiredSpace) <= (PageHeight - BottomMargin)
CheckPageSpace(currentY, requiredSpace) == (currentY + requiredSpace) > (PageHeight - BottomMargin)

\* lines 345-350: the forEach is over when every line of the array was visited
ForEachFinished(f) == f.lines = 0

\* the lines still to be visited after one turn of the forEach
LinesNotConsumed(n) == n
LinesAfterTurn(n) == n - 1

\* line 351: currentY += config.lineHeight
YAfterLineStays(y) == y
YAfterLine(y) == y + LineHeight

SectionsBeforeCustomer == <<"header", "eventDetails", "ticketInfo">>
SectionsBeforeQr == SectionsBeforeCustomer \o <<"customerInfo">>

\* lines 741-848: what is written after the QR code has settled
SectionsAfterQr(drawn, throws) ==
    IF throws THEN drawn \o <<"qr">>
    ELSE drawn \o <<"qr", "paymentSummary", "notices">>

\* line 850: doc.save is reached only when nothing before it threw
FilesSavedRegardless(files, throws, name) == Append(files, name)
FilesSaved(files, throws, name) == IF throws THEN files ELSE Append(files, name)

(***************************************************************************)
(* The steps of one invocation, cut at its await points.                   *)
(*   pc: ready -> awaitBooking -> (awaitCategory ->) pricingReturned       *)
(*       -> awaitQR -> done, or threw when an exception leaves the call.   *)
(***************************************************************************)
NoInvArgs == [id |-> <<>>, date |-> PdfBookingDate]

\* no layout computed, no block placed, the hook not mounted
NoLayout == [state |-> "idle"]
NoCursor == [state |-> "idle"]
NoHook == [state |-> "idle"]

\* no invocations side by side
NoCalls == [of |-> <<>>, docs |-> <<>>, downloads |-> <<>>]

Idle(p) ==
    /\ pc = p
    /\ booking = NoBooking
    /\ categoryResult = NoCategory
    /\ backendPricing = PendingPricing
    /\ customerInfo = NoCustomerInfo
    /\ formattedBookingId = <<>>
    /\ sections = <<>>
    /\ bookingIdLine = NoBookingIdLine
    /\ qrPayload = <<>>
    /\ qrDrawn = "none"
    /\ payment = NoPayment
    /\ saved = <<>>
    /\ invOut = <<>>
    /\ qrBox = NoQrBox
    /\ dateTimeLine = <<>>
    /\ customerLines = NoCustomerLines
    /\ ticketSummary = NoTicketSummary

\* the page functions and the similar-events hook are not in use
NothingElse == layout = NoLayout /\ cursor = NoCursor /\ hook = NoHook

\* generateTicketPDF(ticketData) is about to be called
Init ==
    /\ Idle("ready")
    /\ env \in Environments
    /\ ticketData \in TicketDatas
    /\ invArgs = NoInvArgs
    /\ calls = NoCalls
    /\ flow = NoFlow
    /\ NothingElse

\* fetchPricingData(bookingId) has issued its bookings query
InitPricing ==
    /\ Idle("awaitBooking")
    /\ env \in Environments
    /\ ticketData = NoTicketData
    /\ invArgs = NoInvArgs
    /\ calls = NoCalls
    /\ flow = NoFlow
    /\ NothingElse

\* generateInvoiceNumber(bookingId, createdAt) is about to be called
InitInvoice ==
    /\ Idle("invoiceReady")
    /\ env \in { [tz |-> z, origin |-> Origin] : z \in TimeZoneOffsets }
    /\ ticketData = NoTicketData
    /\ invArgs \in { [id |-> i, date |-> d] : i \in BookingIds, d \in BookingDates }
    /\ calls = NoCalls
    /\ flow = NoFlow
    /\ NothingElse

\* lines 460-468 and 91-122: the call, up to the await of the bookings query
Invoke ==
    /\ pc = "ready"
    /\ pc' = "awaitBooking"
    /\ UNCHANGED <<env, ticketData, booking, backendPricing, customerInfo,
                   formattedBookingId, sections, bookingIdLine, qrPayload, payment,
                   saved, invArgs, invOut, categoryResult, qrDrawn>>
    /\ UNCHANGED <<qrBox, dateTimeLine, customerLines, ticketSummary, flow, calls, layout, cursor, hook>>

\* lines 124-158 (and 187-278 when no category is looked up): the bookings query settles
BookingSettles(rows) ==
    /\ pc = "awaitBooking"
    /\ \/ /\ \E failure \in FetchFailures : booking' = [k |-> failure]
          /\ backendPricing' = NullPricing
          /\ pc' = "pricingReturned"
       \/ \E row \in rows :
            /\ booking' = LoadedBooking(row)
            /\ IF row.event_occurrence_id /\ row.occurrence_ticket_category_id
               THEN /\ pc' = "awaitCategory"
                    /\ UNCHANGED backendPricing
               ELSE /\ pc' = "pricingReturned"
                    /\ backendPricing' = Reconcile(row, NoCategory)
    /\ UNCHANGED <<env, ticketData, customerInfo, formattedBookingId, sections,
                   bookingIdLine, qrPayload, payment, saved, invArgs, invOut,
                   categoryResult, qrDrawn>>
    /\ UNCHANGED <<qrBox, dateTimeLine, customerLines, ticketSummary, flow, calls, layout, cursor, hook>>

\* lines 162-278: the occurrence_ticket_categories query settles; a rejection
\* is caught by the catch of fetchPricingData, which returns null
CategorySettles ==
    /\ pc = "awaitCategory"
    /\ \E cat \in CategoryResults :
         /\ categoryResult' = cat
         /\ backendPricing' = IF cat.k = "throws" THEN NullPricing
                              ELSE Reconcile(booking.row, cat)
    /\ pc' = "pricingReturned"
    /\ UNCHANGED <<env, ticketData, booking, customerInfo, formattedBookingId, sections,
                   bookingIdLine, qrPayload, payment, saved, invArgs, invOut, qrDrawn>>
    /\ UNCHANGED <<qrBox, dateTimeLine, customerLines, ticketSummary, flow, calls, layout, cursor, hook>>

\* lines 470-722: generateTicketPDF resumes with backendPricing and writes the
\* document up to the await of QRCode.toDataURL
Compose ==
    /\ pc = "pricingReturned"
    /\ LET ci == ResolveCustomerInfo(ticketData, backendPricing)
           formatted == GenerateInvoiceNumber(ticketData.id, ticketData.booking_date, env.tz)
       IN /\ customerInfo' = ci
          /\ IF ci.k = "throws" \/ GenerateInvoiceNumberThrows(ticketData.id)
             THEN \* TypeError at line 495/496 or in generateInvoiceNumber (line 510),
                  \* before the document exists
                  /\ pc' = "threw"
                  /\ UNCHANGED <<formattedBookingId, sections, bookingIdLine, qrPayload>>
                  /\ UNCHANGED <<dateTimeLine, ticketSummary, customerLines>>
             ELSE IF ci.k = "undefined"
             THEN \* TypeError at line 667, reading customerInfo.firstName
                  /\ pc' = "threw"
                  /\ formattedBookingId' = formatted
                  /\ sections' = SectionsBeforeCustomer
                  /\ dateTimeLine' = DateTimeLine(ticketData, backendPricing, env.tz)
                  /\ ticketSummary' = TicketBreakdown(ticketData, backendPricing)
                  /\ UNCHANGED <<bookingIdLine, qrPayload, customerLines>>
             ELSE /\ pc' = "awaitQR"
                  /\ formattedBookingId' = formatted
                  /\ sections' = SectionsBeforeQr
                  /\ dateTimeLine' = DateTimeLine(ticketData, backendPricing, env.tz)
                  /\ ticketSummary' = TicketBreakdown(ticketData, backendPricing)
                  /\ customerLines' = CustomerLines(ci)
                  /\ bookingIdLine' = BookingIdDisplay(ticketData, formatted, env.tz)
                  /\ qrPayload' = VerificationUrl(env.origin, ticketData.id, formatted)
    /\ UNCHANGED <<env, ticketData, booking, backendPricing, payment, saved, invArgs,
                   invOut, categoryResult, qrDrawn>>
    /\ UNCHANGED <<qrBox, flow, calls, layout, cursor, hook>>

\* lines 723-850: the QR encoding settles; the image or the placeholder is drawn,
\* then the payment summary and the notices, then the file is saved
QRSettles ==
    /\ pc = "awaitQR"
    /\ \E encoded \in BOOLEAN :
         /\ qrDrawn' = IF encoded THEN "image" ELSE "placeholder"
         /\ qrBox' = IF encoded THEN QrImageBox ELSE QrPlaceholderBox
    /\ LET throws == PaymentSummaryThrows(ticketData, backendPricing)
       IN /\ sections' = SectionsAfterQr(sections, throws)
          /\ payment' = IF throws THEN payment
                        ELSE PaymentSummary(ticketData, backendPricing)
          /\ saved' = FilesSaved(saved, throws, FileName(formattedBookingId))
          /\ pc' = IF throws THEN "threw" ELSE "done"
    /\ UNCHANGED <<env, ticketData, booking, backendPricing, customerInfo,
                   formattedBookingId, bookingIdLine, qrPayload, invArgs, invOut,
                   categoryResult>>
    /\ UNCHANGED <<dateTimeLine, customerLines, ticketSummary, flow, calls, layout, cursor, hook>>

\* invoiceUtils.ts lines 2-13: one call of generateInvoiceNumber
InvoiceCall ==
    /\ pc = "invoiceReady"
    /\ invOut' = GenerateInvoiceNumber(invArgs.id, invArgs.date, env.tz)
    /\ pc' = "invoiceDone"
    /\ UNCHANGED <<env, ticketData, booking, backendPricing, customerInfo,
                   formattedBookingId, sections, bookingIdLine, qrPayload, payment,
                   saved, invArgs, categoryResult, qrDrawn>>
    /\ UNCHANGED <<qrBox, dateTimeLine, customerLines, ticketSummary, flow, calls, layout, cursor, hook>>

\* the booking rows met by a whole document generation
PdfBookingRows ==
    { b \in BookingRows :
        /\ b.quantity = 1
        /\ Len(b.seat_numbers.a) <= 1
        /\ b.event_occurrence_id = b.occurrence_ticket_category_id }

\* the booking rows that vary the joined occurrence and the event time
\* (the occurrence row is joined through the booking's event_occurrence_id)
EventBookingRows ==
    { b \in { [quantity |-> 1, total_price |-> 12, convenience_fee |-> 2,
               event_occurrence_id |-> o, occurrence_ticket_category_id |-> o,
               seat_numbers |-> NoSeats,
               customer |-> [name |-> <<"A", "n">>, email |-> <<"a", "@", "x">>,
                             phone |-> <<"9">>],
               event_occurrences |-> oc, event_time |-> et] :
                 o \in BOOLEAN, oc \in {NoOccurrence, StoredOccurrence},
                 et \in {NoTime, StoredEventTime} } :
        b.event_occurrences.k = "data" => b.event_occurrence_id }

\* generateTicketPDF(ticketData) is about to be called, for the inputs that vary
\* the event
InitEvent ==
    /\ Idle("ready")
    /\ env \in { [tz |-> z, origin |-> Origin] : z \in {-480, 330} }
    /\ ticketData \in EventTicketDatas
    /\ invArgs = NoInvArgs
    /\ calls = NoCalls
    /\ flow = NoFlow
    /\ NothingElse

PdfBookingSettles == BookingSettles(PdfBookingRows)
EventBookingSettles == BookingSettles(EventBookingRows)
PricingBookingSettles == BookingSettles(BookingRows)

Next == Invoke \/ PdfBookingSettles \/ CategorySettles \/ Compose \/ QRSettles
Spec == Init /\ [][Next]_vars

(***************************************************************************)
(* Two invocations side by side.  calls.of holds the local variables of    *)
(* each invocation, calls.docs the jsPDF objects created so far (an        *)
(* invocation refers to its document by position), calls.downloads the     *)
(* files saved so far.  A step of invocation i runs from one await to the  *)
(* next, as the event loop runs it.                                        *)
(***************************************************************************)
CallIds == {1, 2}

TwoCallTicketDatas ==
    { td \in TicketDatas :
        /\ td.id \in { <<"a", "b", "c", "1", "2", "3", "4", "5", "6", "7", "8", "9">>,
                        <<"7", "a">> }
        /\ td.quantity = 1
        /\ ~td.combined.is_combined
        /\ td.customerInfo.k = "given"
        /\ td.prices.totalPrice = td.prices.basePrice + td.prices.convenienceFee
        /\ td.prices.convenienceFee = 0 }

TwoCallBookingRows ==
    { b \in BookingRows :
        /\ b.quantity = 1
        /\ b.total_price = 12
        /\ b.seat_numbers = NoSeats
        /\ b.event_occurrence_id = b.occurrence_ticket_category_id
        /\ Len(b.customer.name) = 2 }

\* the local variables of an invocation that has not started
Frame(td) ==
    [pc |-> "ready", ticketData |-> td, booking |-> NoBooking,
     backendPricing |-> PendingPricing, customerInfo |-> NoCustomerInfo,
     formattedBookingId |-> <<>>, qrPayload |-> <<>>, doc |-> 0]

\* line 513: new jsPDF('p', 'mm', 'a4')
EmptyDocument ==
    [sections |-> <<>>, bookingIdLine |-> NoBookingIdLine, qrBox |-> NoQrBox,
     payment |-> NoPayment]

\* the position of the document `new jsPDF` returns: a new object each time
TheOneDocument(docs) == 1
NewDocument(docs) == Len(docs) + 1

InitTwo ==
    /\ Idle("sideBySide")
    /\ env = [tz |-> 0, origin |-> Origin]
    /\ ticketData = NoTicketData
    /\ invArgs = NoInvArgs
    /\ \E a \in TwoCallTicketDatas, b \in TwoCallTicketDatas :
         calls = [of |-> <<Frame(a), Frame(b)>>, docs |-> <<>>, downloads |-> <<>>]
    /\ flow = NoFlow
    /\ NothingElse

SingleCallUnchanged ==
    UNCHANGED <<pc, env, ticketData, booking, backendPricing, customerInfo,
                formattedBookingId, sections, bookingIdLine, qrPayload, payment,
                saved, invArgs, invOut, categoryResult, qrDrawn,
                qrBox, dateTimeLine, customerLines, ticketSummary, flow,
                layout, cursor, hook>>

\* lines 460-468 and 91-122 in invocation i
TwoInvoke ==
    /\ \E i \in CallIds :
         /\ calls.of[i].pc = "ready"
         /\ calls' = [calls EXCEPT !.of[i].pc = "awaitBooking"]
    /\ SingleCallUnchanged

\* lines 124-158 (to 278 without a category lookup) in invocation i
TwoBookingSettles ==
    /\ \E i \in CallIds :
         /\ calls.of[i].pc = "awaitBooking"
         /\ \/ \E failure \in FetchFailures :
                  calls' = [calls EXCEPT !.of[i].booking = [k |-> failure],
                                         !.of[i].backendPricing = NullPricing,
                                         !.of[i].pc = "pricingReturned"]
            \/ \E row \in TwoCallBookingRows :
                  IF row.event_occurrence_id /\ row.occurrence_ticket_category_id
                  THEN calls' = [calls EXCEPT !.of[i].booking = LoadedBooking(row),
                                              !.of[i].pc = "awaitCategory"]
                  ELSE calls' = [calls EXCEPT !.of[i].booking = LoadedBooking(row),
                                              !.of[i].backendPricing =
                                                  Reconcile(row, NoCategory),
                                              !.of[i].pc = "pricingReturned"]
    /\ SingleCallUnchanged

\* lines 162-278 in invocation i
TwoCategorySettles ==
    /\ \E i \in CallIds :
         /\ calls.of[i].pc = "awaitCategory"
         /\ \E cat \in CategoryResults :
              calls' = [calls EXCEPT
                           !.of[i].backendPricing =
                               IF cat.k = "throws" THEN NullPricing
                               ELSE Reconcile(calls.of[i].booking.row, cat),
                           !.of[i].pc = "pricingReturned"]
    /\ SingleCallUnchanged

\* lines 470-722 in invocation i: it creates its document and writes the
\* sections before the QR code into it
TwoCompose ==
    /\ \E i \in CallIds :
         LET f == calls.of[i]
             ci == ResolveCustomerInfo(f.ticketData, f.backendPricing)
             formatted == GenerateInvoiceNumber(f.ticketData.id, f.ticketData.booking_date,
                                                env.tz)
             ref == NewDocument(calls.docs)
             docs0 == IF ref > Len(calls.docs) THEN Append(calls.docs, EmptyDocument)
                      ELSE calls.docs
         IN /\ f.pc = "pricingReturned"
            /\ IF ci.k = "throws" \/ GenerateInvoiceNumberThrows(f.ticketData.id)
               THEN calls' = [calls EXCEPT !.of[i].customerInfo = ci, !.of[i].pc = "threw"]
               ELSE IF ci.k = "undefined"
               THEN calls' = [calls EXCEPT
                                 !.of[i].customerInfo = ci,
                                 !.of[i].formattedBookingId = formatted,
                                 !.of[i].doc = ref,
                                 !.of[i].pc = "threw",
                                 !.docs = [docs0 EXCEPT ![ref].sections =
                                              @ \o SectionsBeforeCustomer]]
               ELSE calls' = [calls EXCEPT
                                 !.of[i].customerInfo = ci,
                                 !.of[i].formattedBookingId = formatted,
                                 !.of[i].qrPayload =
                                     VerificationUrl(env.origin, f.ticketData.id, formatted),
                                 !.of[i].doc = ref,
                                 !.of[i].pc = "awaitQR",
                                 !.docs = [docs0 EXCEPT
                                              ![ref].sections = @ \o SectionsBeforeQr,
                                              ![ref].bookingIdLine =
                                                  BookingIdDisplay(f.ticketData, formatted,
                                                                   env.tz)]]
    /\ SingleCallUnchanged

\* lines 723-850 in invocation i: the rest of its document, then doc.save
TwoQRSettles ==
    /\ \E i \in CallIds, encoded \in BOOLEAN :
         LET f == calls.of[i]
             throws == PaymentSummaryThrows(f.ticketData, f.backendPricing)
         IN /\ f.pc = "awaitQR"
            /\ calls' = [calls EXCEPT
                            !.of[i].pc = IF throws THEN "threw" ELSE "done",
                            !.docs[f.doc].qrBox =
                                IF encoded THEN QrImageBox ELSE QrPlaceholderBox,
                            !.docs[f.doc].sections = SectionsAfterQr(@, throws),
                            !.docs[f.doc].payment =
                                IF throws THEN @
                                ELSE PaymentSummary(f.ticketData, f.backendPricing),
                            !.downloads =
                                FilesSaved(@, throws, FileName(f.formattedBookingId))]
    /\ SingleCallUnchanged

NextTwo == TwoInvoke \/ TwoBookingSettles \/ TwoCategorySettles \/ TwoCompose \/ TwoQRSettles
SpecTwo == InitTwo /\ [][NextTwo]_vars

(***************************************************************************)
(* One invocation with the text flow of addResponsiveText taken line by    *)
(* line: after fetchPricingData has returned, the event name is split into *)
(* lines and written (line 567), unless the invocation throws before the   *)
(* document exists; the rest of the composition follows.                   *)
(***************************************************************************)
LiveTicketDatas ==
    { td \in TicketDatas :
        /\ td.id = <<"7", "a">>
        /\ td.quantity = 1
        /\ ~td.combined.is_combined
        /\ td.prices.convenienceFee = 0 }

LiveBookingRows ==
    { b \in BookingRows :
        /\ b.quantity = 1
        /\ b.total_price = 12
        /\ b.seat_numbers = NoSeats
        /\ b.event_occurrence_id = b.occurrence_ticket_category_id }

InitLive ==
    /\ Idle("ready")
    /\ env \in Environments
    /\ ticketData \in LiveTicketDatas
    /\ invArgs = NoInvArgs
    /\ calls = NoCalls
    /\ flow = NoFlow
    /\ NothingElse

\* the TypeErrors raised before `new jsPDF` (lines 495, 496 and 510)
ComposeThrowsEarly ==
    \/ ResolveCustomerInfo(ticketData, backendPricing).k = "throws"
    \/ GenerateInvoiceNumberThrows(ticketData.id)

FlowUnchanged ==
    UNCHANGED <<pc, env, ticketData, booking, backendPricing, customerInfo,
                formattedBookingId, sections, bookingIdLine, qrPayload, payment,
                saved, invArgs, invOut, categoryResult, qrDrawn,
                qrBox, dateTimeLine, customerLines, ticketSummary, calls,
                layout, cursor, hook>>

\* lines 341-343: splitTextToSize returns the lines of the text; y is where the
\* caller's cursor stands
BeginText ==
    /\ pc = "pricingReturned"
    /\ flow.state = "idle"
    /\ ~ComposeThrowsEarly
    /\ \E n \in 0..MaxLines, y \in {755, 2700, 2750} :
         flow' = [state |-> "running", lines |-> n, currentY |-> y, pages |-> 0,
                  written |-> 0, startY |-> y, drawn |-> <<>>]
    /\ FlowUnchanged

\* lines 345-351: one turn of the forEach
WriteLine ==
    /\ flow.state = "running"
    /\ ~ForEachFinished(flow)
    /\ LET broke == CheckPageSpace(flow.currentY, LineHeight)
           y == IF broke THEN NewPageStartY ELSE flow.currentY
       IN flow' = [state |-> "running",
                   lines |-> LinesAfterTurn(flow.lines),
                   currentY |-> YAfterLine(y),
                   pages |-> flow.pages + (IF broke THEN 1 ELSE 0),
                   written |-> flow.written + 1,
                   startY |-> flow.startY,
                   drawn |-> Append(flow.drawn,
                                    [line |-> flow.written + 1,
                                     page |-> flow.pages + (IF broke THEN 1 ELSE 0),
                                     y |-> y])]
    /\ FlowUnchanged

\* line 354: return currentY
EndText ==
    /\ flow.state = "running"
    /\ ForEachFinished(flow)
    /\ flow' = [flow EXCEPT !.state = "returned"]
    /\ FlowUnchanged

LiveBookingSettles == BookingSettles(LiveBookingRows)
LiveCompose == (flow.state = "returned" \/ ComposeThrowsEarly) /\ Compose

NextLive ==
    \/ Invoke
    \/ LiveBookingSettles
    \/ CategorySettles
    \/ BeginText
    \/ WriteLine
    \/ EndText
    \/ LiveCompose
    \/ QRSettles

\* every awaited call settles, and the code between two awaits runs
SpecLive ==
    /\ InitLive
    /\ [][NextLive]_vars
    /\ WF_vars(LiveBookingSettles)
    /\ WF_vars(CategorySettles)
    /\ WF_vars(QRSettles)
    /\ WF_vars(Invoke \/ BeginText \/ WriteLine \/ EndText \/ LiveCompose)

NextEvent == Invoke \/ EventBookingSettles \/ CategorySettles \/ Compose \/ QRSettles
SpecEvent == InitEvent /\ [][NextEvent]_vars

NextPricing == PricingBookingSettles \/ CategorySettles
SpecPricing == InitPricing /\ [][NextPricing]_vars

NextInvoice == InvoiceCall
SpecInvoice == InitInvoice /\ [][NextInvoice]_vars

(***************************************************************************)
(* The cursor of generateTicketPDF on the a4 document, block by block.     *)
(* The texts are given by the number of lines splitTextToSize makes of     *)
(* them.  cursor.page is the page jsPDF draws on (the last page added),    *)
(* cursor.checks the calls of checkPageSpace in order, cursor.blocks the   *)
(* blocks placed: the page and y they are drawn at, and the page on which  *)
(* that y was computed.                                                    *)
(***************************************************************************)
MaxNameLines == 32
SectionSpacing == 140
QrSize == 294
FirstContentY == 550

\* every other variable rests while a page function or the hook is studied
NoDocument(p) ==
    /\ Idle(p)
    /\ env = [tz |-> 0, origin |-> Origin]
    /\ ticketData = NoTicketData
    /\ invArgs = NoInvArgs
    /\ calls = NoCalls
    /\ flow = NoFlow

DocumentUnchanged ==
    UNCHANGED <<pc, env, ticketData, booking, backendPricing, customerInfo,
                formattedBookingId, sections, bookingIdLine, qrPayload, payment,
                saved, invArgs, invOut, categoryResult, qrDrawn,
                qrBox, dateTimeLine, customerLines, ticketSummary, flow, calls>>

\* `if (checkPageSpace(doc, y, required)) { y = addNewPageWithHeader(...) }`
\* at the cursor k: the call is recorded with the pages before and after it
PageCheck(k, y, required) ==
    LET result == CheckPageSpace(y, required)
    IN [k EXCEPT !.page = IF result THEN k.page + 1 ELSE k.page,
                 !.currentY = IF result THEN NewPageStartY ELSE y,
                 !.checks = Append(k.checks,
                                   [y |-> y, required |-> required,
                                    returned |-> result,
                                    pagesBefore |-> k.page,
                                    pagesAfter |-> IF result THEN k.page + 1 ELSE k.page])]

\* lines 341-355: addResponsiveText of a text of n lines, starting at y
RECURSIVE AddResponsiveText(_, _, _)
AddResponsiveText(k, y, n) ==
    IF n = 0 THEN [k EXCEPT !.currentY = y]
    ELSE LET c == PageCheck(k, y, LineHeight)
         IN AddResponsiveText(c, c.currentY + LineHeight, n - 1)

\* currentY += d
Advance(k, d) == [k EXCEPT !.currentY = k.currentY + d]

\* a block drawn at y on the current page; y was computed on page `from`
Place(k, name, y, from) ==
    [k EXCEPT !.blocks = Append(k.blocks,
                                [name |-> name, page |-> k.page, y |-> y, from |-> from])]

Max(a, b) == IF a >= b THEN a ELSE b

NameLines == 1..MaxNameLines
AddressLines == {1, 2}
SummaryLines == {1, 2}

InitPage ==
    /\ NoDocument("page")
    /\ layout = NoLayout
    /\ hook = NoHook
    /\ \E n \in NameLines, a \in AddressLines, t \in SummaryLines :
         cursor = [state |-> "header", nameLines |-> n, addressLines |-> a,
                   summaryLines |-> t, page |-> 1, currentY |-> FirstContentY,
                   detailsStartY |-> 0, detailsPage |-> 0,
                   ticketY |-> 0, guestStartY |-> 0, guestPage |-> 0, qrY |-> 0,
                   checks |-> <<>>, blocks |-> <<>>]

\* lines 545-636: Event Details
EventDetails ==
    /\ cursor.state = "header"
    /\ LET k1 == PageCheck(cursor, cursor.currentY, 600)
           k2 == Place(k1, "Event Details", k1.currentY, k1.page)
           k3 == [Advance(k2, SectionSpacing) EXCEPT
                    !.detailsStartY = k2.currentY + SectionSpacing,
                    !.detailsPage = k2.page]
           k4 == AddResponsiveText(k3, k3.currentY + LineHeight, cursor.nameLines)
           k5 == PageCheck(k4, k4.currentY + LineHeight, 200)
           k6 == AddResponsiveText(k5, k5.currentY + LineHeight, 1)
           k7 == PageCheck(k6, k6.currentY + LineHeight, 200)
           k8 == AddResponsiveText(k7, k7.currentY + LineHeight, 1)
           k9 == AddResponsiveText(k8, k8.currentY + LineHeight + LineHeight,
                                   cursor.addressLines)
       IN cursor' = [k9 EXCEPT !.state = "eventDetails"]
    /\ DocumentUnchanged
    /\ UNCHANGED <<layout, hook>>

\* lines 638-645 and 358-458: Ticket Information, in the right column
TicketInformation ==
    /\ cursor.state = "eventDetails"
    /\ LET y0 == cursor.currentY
           k1 == PageCheck(cursor, cursor.detailsStartY, 1000)
           from == IF k1.page = cursor.page THEN cursor.detailsPage ELSE k1.page
           k2 == Place(k1, "Ticket Information", k1.currentY, from)
           k3 == AddResponsiveText(k2, k2.currentY + SectionSpacing, cursor.summaryLines)
           k4 == Advance(k3, LineHeight + SectionSpacing + SectionSpacing)
       IN cursor' = [k4 EXCEPT !.state = "ticketInfo",
                               !.ticketY = k4.currentY,
                               !.currentY = y0]
    /\ DocumentUnchanged
    /\ UNCHANGED <<layout, hook>>

\* lines 647-700: Customer Information
CustomerInformation ==
    /\ cursor.state = "ticketInfo"
    /\ LET k1 == PageCheck(cursor, Max(cursor.currentY, cursor.ticketY) + SectionSpacing, 800)
           k2 == Place(k1, "Customer Information", k1.currentY, k1.page)
           k3 == [Advance(k2, SectionSpacing) EXCEPT
                    !.guestStartY = k2.currentY + SectionSpacing,
                    !.guestPage = k2.page]
           k4 == AddResponsiveText(k3, k3.currentY + LineHeight, 1)
           k5 == AddResponsiveText(k4, k4.currentY + LineHeight + LineHeight, 1)
           k6 == AddResponsiveText(k5, k5.currentY + LineHeight + LineHeight, 1)
           k7 == AddResponsiveText(k6, k6.currentY + LineHeight + LineHeight + LineHeight, 1)
       IN cursor' = [k7 EXCEPT !.state = "customerInfo"]
    /\ DocumentUnchanged
    /\ UNCHANGED <<layout, hook>>

\* lines 702-708: the QR code, in the right column
QrCode ==
    /\ cursor.state = "customerInfo"
    /\ LET y0 == cursor.currentY
           k1 == PageCheck(cursor, cursor.guestStartY, QrSize + 200)
           broke == k1.page # cursor.page
           qrY == IF broke THEN k1.currentY + 200 ELSE k1.currentY
           k2 == Place(k1, "QR Code", qrY, IF broke THEN k1.page ELSE cursor.guestPage)
       IN cursor' = [k2 EXCEPT !.state = "qr", !.qrY = qrY, !.currentY = y0]
    /\ DocumentUnchanged
    /\ UNCHANGED <<layout, hook>>

\* lines 741-750: the Payment Summary heading
PaymentHeading ==
    /\ cursor.state = "qr"
    /\ LET k1 == PageCheck(cursor,
                           Max(cursor.currentY, cursor.qrY + QrSize) + SectionSpacing + SectionSpacing,
                           1000)
           k2 == Place(k1, "Payment Summary", k1.currentY, k1.page)
       IN cursor' = [Advance(k2, SectionSpacing) EXCEPT !.state = "payment"]
    /\ DocumentUnchanged
    /\ UNCHANGED <<layout, hook>>

NextPage ==
    \/ EventDetails
    \/ TicketInformation
    \/ CustomerInformation
    \/ QrCode
    \/ PaymentHeading

SpecPage == InitPage /\ [][NextPage]_vars

(***************************************************************************)
(* getResponsiveConfig and getLayoutConfig.  Page sizes are whole          *)
(* millimetres; the lengths computed from them are in thousandths of a     *)
(* millimetre, columnSplit in hundredths, and a font size is the exact     *)
(* fraction over FontDenominator.                                          *)
(***************************************************************************)
MaxPageWidth == 300
PageWidths == 1..MaxPageWidth
PageHeights == {150, 199, 200, 297}
FontDenominator == 1000 * 210 * 297

Min(a, b) == IF a <= b THEN a ELSE b

\* lines 282-284
IsSmallFormat(pageWidth, pageHeight) == pageWidth < 150 \/ pageHeight < 200
IsMediumFormat(pageWidth) == pageWidth >= 150 /\ pageWidth < 200
IsLargeFormat(pageWidth) == pageWidth >= 200

\* `isSmallFormat ? a : (isMediumFormat ? b : c)`
Tier(pageWidth, pageHeight, a, b, c) ==
    IF IsSmallFormat(pageWidth, pageHeight) THEN a
    ELSE IF IsMediumFormat(pageWidth) THEN b ELSE c

\* Math.max(lo, Math.min(hi, pageWidth * perMille/1000 * baseScale)), with
\* baseScale = Math.min(pageWidth / 210, pageHeight / 297)
FontSize(pageWidth, pageHeight, lo, hi, perMille) ==
    Frac(Max(lo * FontDenominator,
             Min(hi * FontDenominator,
                 perMille * pageWidth * Min(297 * pageWidth, 210 * pageHeight))),
         FontDenominator)

\* lines 281-306
GetResponsiveConfig(pageWidth, pageHeight) ==
    [margin |-> Max(8000, 35 * pageWidth),
     headerHeight |-> Tier(pageWidth, pageHeight, 18000, 25000, 32000),
     fontSize |-> [title |-> FontSize(pageWidth, pageHeight, 12, 20, 65),
                   subtitle |-> FontSize(pageWidth, pageHeight, 7, 12, 28),
                   heading |-> FontSize(pageWidth, pageHeight, 9, 14, 32),
                   body |-> FontSize(pageWidth, pageHeight, 7, 11, 24),
                   small |-> FontSize(pageWidth, pageHeight, 6, 9, 20)],
     lineHeight |-> Tier(pageWidth, pageHeight, 3500, 5000, 6500),
     sectionSpacing |-> Tier(pageWidth, pageHeight, 6000, 9000, 14000),
     qrSize |-> Max(25000, Min(60000, 140 * pageWidth)),
     columnSplit |-> Tier(pageWidth, pageHeight, 95, 65, 58),
     contentPadding |-> Max(3000, 15 * pageWidth),
     maxTextWidth |-> IF IsSmallFormat(pageWidth, pageHeight)
                      THEN 850 * pageWidth ELSE 450 * pageWidth]

\* line 855
IsSmallLayoutOfConfig(config, pageWidth) == config.columnSplit = 95
IsSmallLayout(config, pageWidth) == pageWidth < 150

\* lines 854-876
GetLayoutConfig(config, pageWidth) ==
    IF IsSmallLayout(config, pageWidth)
    THEN [leftColumnX |-> config.margin + config.contentPadding,
          rightColumnX |-> config.margin + config.contentPadding,
          leftColumnWidth |-> 1000 * pageWidth - config.margin * 2 - config.contentPadding * 2,
          rightColumnWidth |-> 1000 * pageWidth - config.margin * 2 - config.contentPadding * 2,
          useStacked |-> TRUE]
    ELSE [leftColumnX |-> config.margin + config.contentPadding,
          rightColumnX |-> 10 * pageWidth * config.columnSplit,
          leftColumnWidth |-> 10 * pageWidth * config.columnSplit
                              - config.margin - config.contentPadding * 2,
          rightColumnWidth |-> 10 * pageWidth * (100 - config.columnSplit)
                               - config.margin - config.contentPadding,
          useStacked |-> FALSE]

NoConfig == GetResponsiveConfig(1, 150)
NoColumns == GetLayoutConfig(NoConfig, 1)

\* a document of some page size exists
InitLayout ==
    /\ NoDocument("layout")
    /\ cursor = NoCursor
    /\ hook = NoHook
    /\ \E w \in PageWidths, h \in PageHeights :
         layout = [state |-> "page", pageWidth |-> w, pageHeight |-> h,
                   config |-> NoConfig, columns |-> NoColumns]

\* lines 518-519: const config = getResponsiveConfig(pageWidth, pageHeight);
\* const layout = getLayoutConfig(config, pageWidth)
ComputeLayout ==
    /\ layout.state = "page"
    /\ LET config == GetResponsiveConfig(layout.pageWidth, layout.pageHeight)
       IN layout' = [layout EXCEPT !.state = "computed",
                                   !.config = config,
                                   !.columns = GetLayoutConfig(config, layout.pageWidth)]
    /\ DocumentUnchanged
    /\ UNCHANGED <<cursor, hook>>

NextLayout == ComputeLayout
SpecLayout == InitLayout /\ [][NextLayout]_vars

(***************************************************************************)
(* generateInvoiceNumber for two bookings made on the same date: invArgs   *)
(* holds the arguments of the two calls and invOut their results.          *)
(***************************************************************************)
PairIds == { id \in BookingIds : Len(id) >= MaxIdLen - 1 /\ "-" \notin Range(id) }

InitPair ==
    /\ Idle("pairReady")
    /\ env = [tz |-> 0, origin |-> Origin]
    /\ ticketData = NoTicketData
    /\ calls = NoCalls
    /\ flow = NoFlow
    /\ NothingElse
    /\ \E a \in PairIds, b \in PairIds :
         invArgs = <<[id |-> a, date |-> PdfBookingDate], [id |-> b, date |-> PdfBookingDate]>>

PairUnchanged ==
    /\ UNCHANGED <<env, ticketData, booking, backendPricing, customerInfo,
                   formattedBookingId, sections, bookingIdLine, qrPayload, payment,
                   saved, invArgs, categoryResult, qrDrawn>>
    /\ UNCHANGED <<qrBox, dateTimeLine, customerLines, ticketSummary, flow, calls,
                   layout, cursor, hook>>

\* generateInvoiceNumber(a.id, a.booking_date)
FirstInvoiceCall ==
    /\ pc = "pairReady"
    /\ invOut' = <<GenerateInvoiceNumber(invArgs[1].id, invArgs[1].date, env.tz)>>
    /\ pc' = "pairOne"
    /\ PairUnchanged

\* generateInvoiceNumber(b.id, b.booking_date)
SecondInvoiceCall ==
    /\ pc = "pairOne"
    /\ invOut' = Append(invOut, GenerateInvoiceNumber(invArgs[2].id, invArgs[2].date, env.tz))
    /\ pc' = "pairDone"
    /\ PairUnchanged

NextPair == FirstInvoiceCall \/ SecondInvoiceCall
SpecPair == InitPair /\ [][NextPair]_vars

(***************************************************************************)
(* useSimilarEvents: the hook's two state cells and the runs of its        *)
(* effect.  A run is cut at its awaits: the RPC get_similar_events and the *)
(* fallback query on `events`.  hook.runs[i].stage is where run i stands:  *)
(* skipped (no eventId), rpc, fallback, settled; hook.runs[i].delivered is *)
(* the list run i handed to setSimilarEvents.                              *)
(***************************************************************************)
MaxRuns == 3

HookParams ==
    { [eventId |-> e, category |-> c, city |-> t] :
        e \in {"", "e1", "e2"}, c \in {"", "music"}, t \in {"", "pune"} }

\* `category && category.trim() !== ''`
Provided(text) == text # ""

NoList == [k |-> "unset"]
EmptyList == [k |-> "empty"]
\* the formatted rows the backend returns for the parameters of a run
RpcRows(params) == [k |-> "rows", via |-> "rpc", for |-> params]
FallbackRows(params) == [k |-> "rows", via |-> "fallback", for |-> params]

RpcOutcomes == {"rows", "none", "throws"}
FallbackOutcomes == {"rows", "error", "throws"}

HookUnchanged ==
    /\ DocumentUnchanged
    /\ UNCHANGED <<layout, cursor>>

\* lines 22-42 and 66-96: the effect body up to its first await
RunEffect(h, params) ==
    IF ~Provided(params.eventId)
    THEN [h EXCEPT !.params = params,
                   !.runs = Append(h.runs, [params |-> params, stage |-> "skipped",
                                            delivered |-> NoList])]
    ELSE [h EXCEPT !.params = params,
                   !.loading = TRUE,
                   !.runs = Append(h.runs,
                                   [params |-> params,
                                    stage |-> IF Provided(params.category)
                                              THEN "rpc" ELSE "fallback",
                                    delivered |-> NoList])]

\* setSimilarEvents(list) in run i
Deliver(h, i, list) ==
    [h EXCEPT !.similarEvents = list, !.runs[i].delivered = list]

\* line 133 (and 59): setLoading(false), the run is over
Finish(h, i) == [h EXCEPT !.loading = FALSE, !.runs[i].stage = "settled"]

\* the component renders for the first time with some parameters
InitHook ==
    /\ NoDocument("hook")
    /\ layout = NoLayout
    /\ cursor = NoCursor
    /\ \E params \in HookParams :
         hook = [state |-> "rendered", params |-> params, similarEvents |-> EmptyList,
                 loading |-> FALSE, runs |-> <<>>]

\* lines 21, 137-138: the effect runs after the first render
Mount ==
    /\ hook.state = "rendered"
    /\ hook' = [RunEffect(hook, hook.params) EXCEPT !.state = "mounted"]
    /\ HookUnchanged

\* line 138: a render with other (eventId, category, city) runs the effect again
ChangeParams ==
    /\ hook.state = "mounted"
    /\ Len(hook.runs) < MaxRuns
    /\ \E params \in HookParams :
         /\ params # hook.params
         /\ hook' = RunEffect(hook, params)
    /\ HookUnchanged

\* lines 37-64 (and 129-134 when the call rejects): the RPC of run i settles
RpcSettles ==
    /\ hook.state = "mounted"
    /\ \E i \in 1..Len(hook.runs), outcome \in RpcOutcomes :
         /\ hook.runs[i].stage = "rpc"
         /\ hook' = CASE outcome = "rows" ->
                           Finish(Deliver(hook, i, RpcRows(hook.runs[i].params)), i)
                      [] outcome = "none" ->
                           [hook EXCEPT !.runs[i].stage = "fallback"]
                      [] outcome = "throws" ->
                           Finish(Deliver(hook, i, EmptyList), i)
    /\ HookUnchanged

\* lines 96-134: the fallback query of run i settles
FallbackSettles ==
    /\ hook.state = "mounted"
    /\ \E i \in 1..Len(hook.runs), outcome \in FallbackOutcomes :
         /\ hook.runs[i].stage = "fallback"
         /\ hook' = CASE outcome = "rows" ->
                           Finish(Deliver(hook, i, FallbackRows(hook.runs[i].params)), i)
                      [] outcome = "error" ->
                           Finish(Deliver(hook, i, EmptyList), i)
                      [] outcome = "throws" ->
                           Finish(Deliver(hook, i, EmptyList), i)
    /\ HookUnchanged

NextHook == Mount \/ ChangeParams \/ RpcSettles \/ FallbackSettles
SpecHook == InitHook /\ [][NextHook]_vars

(***************************************************************************)
(* Properties.                                                             *)
(***************************************************************************)
RECURSIVE SumTotalPrice(_)
SumTotalPrice(bd) == IF Len(bd) = 0 THEN 0 ELSE Head(bd).totalPrice + SumTotalPrice(Tail(bd))

RECURSIVE SumQuantity(_)
SumQuantity(bd) == IF Len(bd) = 0 THEN 0 ELSE Head(bd).quantity + SumQuantity(Tail(bd))

PricingReturned == pc = "pricingReturned" /\ backendPricing.k = "pricing"

HasCategoryReference ==
    booking.row.event_occurrence_id /\ booking.row.occurrence_ticket_category_id

\* C1: for every loaded booking, the totalPrice fields of the returned
\* categoryBreakdown add up to the returned basePrice.
C1_LineTotalsSumToBasePrice ==
    PricingReturned =>
        SumTotalPrice(backendPricing.categoryBreakdown) = backendPricing.basePrice

\* C2: for every loaded booking, the quantity fields of the returned
\* categoryBreakdown add up to the returned actualTotalQuantity.
C2_QuantitiesSumToTicketCount ==
    PricingReturned =>
        SumQuantity(backendPricing.categoryBreakdown) = backendPricing.actualTotalQuantity

\* C3: for a loaded booking that references an occurrence and an occurrence
\* ticket category (whose row the lookup found), basePrice is the category's base
\* price times booking.quantity and the breakdown has exactly one entry.
C3_OccurrenceCategoryBasePrice ==
    (PricingReturned /\ HasCategoryReference /\ categoryResult.k = "found") =>
        /\ backendPricing.basePrice = categoryResult.base_price * booking.row.quantity
        /\ Len(backendPricing.categoryBreakdown) = 1

\* the seats of a booking that carry a given label, and what they add up to
RECURSIVE SeatsQuantity(_, _)
SeatsQuantity(seats, label) ==
    IF Len(seats) = 0 THEN 0
    ELSE SeatsQuantity(Tail(seats), label)
         + (IF SeatCategory(Head(seats)) = label THEN SeatQuantity(Head(seats)) ELSE 0)

RECURSIVE SeatsSubtotal(_, _)
SeatsSubtotal(seats, label) ==
    IF Len(seats) = 0 THEN 0
    ELSE SeatsSubtotal(Tail(seats), label)
         + (IF SeatCategory(Head(seats)) = label
            THEN SeatPrice(Head(seats)) * SeatQuantity(Head(seats)) ELSE 0)

SeatLabels(seats) == {SeatCategory(seats[i]) : i \in 1..Len(seats)}

SeatBreakdownMatches(seats, bd) ==
    /\ SumQuantity(bd) = SeatsQuantity(seats, "VIP") + SeatsQuantity(seats, "Balcony")
                         + SeatsQuantity(seats, "General")
    /\ Len(bd) = Cardinality(SeatLabels(seats))
    /\ {bd[i].category : i \in 1..Len(bd)} = SeatLabels(seats)
    /\ \A i \in 1..Len(bd) : bd[i].totalPrice = SeatsSubtotal(seats, bd[i].category)

SeatArrayWithoutCategoryReference ==
    /\ PricingReturned
    /\ booking.row.seat_numbers.k = "array"
    /\ ~HasCategoryReference

\* C4 as stated: for every loaded booking with a seat array and no occurrence
\* category reference, the breakdown quantities add up to the resolved seat
\* quantities, there is one entry per distinct label, and each entry's totalPrice
\* is the sum of price x quantity over the seats of its label.
C4_SeatArrayBreakdown ==
    SeatArrayWithoutCategoryReference =>
        SeatBreakdownMatches(booking.row.seat_numbers.a, backendPricing.categoryBreakdown)

\* C4 as amended: the same, for every such booking whose seat array is not empty.
C4_NonEmptySeatArrayBreakdown ==
    (SeatArrayWithoutCategoryReference /\ Len(booking.row.seat_numbers.a) > 0) =>
        SeatBreakdownMatches(booking.row.seat_numbers.a, backendPricing.categoryBreakdown)

\* two seats of one label with different prices were merged into one entry
C4_Witness ==
    /\ SeatArrayWithoutCategoryReference
    /\ Len(booking.row.seat_numbers.a) = 2
    /\ booking.row.seat_numbers.a[1].price # booking.row.seat_numbers.a[2].price
    /\ Len(backendPricing.categoryBreakdown) = 1
    /\ backendPricing.categoryBreakdown[1].quantity = 3
    /\ backendPricing.categoryBreakdown[1].totalPrice = 11

\* C5: once the booking row is loaded, fetchPricingData returns a result (not
\* null) whatever the outcome of the occurrence ticket category lookup.
C5_ResultWheneverBookingLoaded ==
    (pc = "pricingReturned" /\ booking.k = "row") => backendPricing.k = "pricing"

\* C6: when fetchPricingData returned null, the finished document's Payment
\* Summary shows ticketData.basePrice on the ticket line, the fee lines derived
\* from ticketData.convenienceFee and ticketData.totalPrice as Total Amount.
C6_FallbackShowsCallerFigures ==
    (pc = "done" /\ backendPricing.k = "null") =>
        /\ payment.ticketLines = <<ticketData.prices.basePrice>>
        /\ payment.feeLine =
               FeeLines(ConvenienceFeeBeforeGst(ticketData.prices.convenienceFee),
                        GstAmount(ticketData.prices.convenienceFee)).feeLine
        /\ payment.gstLine =
               FeeLines(ConvenienceFeeBeforeGst(ticketData.prices.convenienceFee),
                        GstAmount(ticketData.prices.convenienceFee)).gstLine
        /\ payment.totalLine = <<ticketData.prices.totalPrice>>

TwoDigits(n) == <<DigitChars[((n \div 10) % 10) + 1], DigitChars[(n % 10) + 1]>>

LastSix(id) == IF Len(id) < 6 THEN id ELSE SubSeq(id, Len(id) - 5, Len(id))

\* C7: generateInvoiceNumber returns "INV-", the booking date as YYMMDD (the
\* date of the booking timestamp, zero-padded), "-", and the upper-cased last six
\* characters of the booking id (the whole id when it is shorter).  Stated for
\* the dates with a four-digit year, where "two-digit year" is unambiguous.
C7_InvoiceNumberOfBookingDate ==
    (pc = "invoiceDone" /\ invArgs.date.y >= 1000) =>
        invOut = <<"I", "N", "V", "-">>
                 \o TwoDigits(invArgs.date.y) \o TwoDigits(invArgs.date.mo)
                 \o TwoDigits(invArgs.date.d) \o <<"-">> \o ToUpperCase(LastSix(invArgs.id))

UpperOrDigit == Range(UpperChars) \cup Range(DigitChars)
LetterOrDigit == UpperOrDigit \cup Range(LowerChars)

\* INV-\d{6}-[A-Z0-9]{1,6}
MatchesInvoicePattern(s) ==
    /\ Len(s) >= 12
    /\ Len(s) <= 17
    /\ SubSeq(s, 1, 4) = <<"I", "N", "V", "-">>
    /\ \A i \in 5..10 : s[i] \in Range(DigitChars)
    /\ s[11] = "-"
    /\ \A i \in 12..Len(s) : s[i] \in UpperOrDigit

\* C8 as stated: for all booking ids and ISO booking dates the output matches
\* INV-, six digits, a hyphen, then one to six characters in A-Z or 0-9.
C8_PatternForAllIds ==
    pc = "invoiceDone" => MatchesInvoicePattern(invOut)

\* C8 as amended: the output matches the pattern for every non-empty booking id
\* whose last six characters are ASCII letters or digits and every booking date
\* whose year, read in the runtime's time zone, has at least two digits.
C8_PatternForAlphanumericIds ==
    (/\ pc = "invoiceDone"
     /\ Len(invArgs.id) > 0
     /\ Range(LastSix(invArgs.id)) \subseteq LetterOrDigit
     /\ GetFullYear(invArgs.date, env.tz) >= 10) =>
        MatchesInvoicePattern(invOut)

\* an id longer than six characters, with a hyphen outside its last six and a
\* lower-case letter inside them, on a date whose month and day need padding
C8_Witness ==
    /\ pc = "invoiceDone"
    /\ Len(invArgs.id) = 7
    /\ invArgs.id[1] = "-"
    /\ Range(LastSix(invArgs.id)) = {"a", "7"}
    /\ invArgs.date.mo = 3
    /\ invOut[11] = "-"
    /\ Len(invOut) = 17

InvoiceNumberOfTicket ==
    GenerateInvoiceNumber(ticketData.id, ticketData.booking_date, env.tz)

\* C9: in a finished generation the invoice number of (booking.id,
\* booking.booking_date) is what the QR payload "{origin}/verify-ticket/{n}" ends
\* with, what the saved file "ticket-{n}.pdf" is named after and, for a booking
\* that is not combined, what the Booking ID line shows; the QR payload is never
\* built from the raw booking id.
C9_OneInvoiceNumberEverywhere ==
    pc = "done" =>
        /\ qrPayload = env.origin
                       \o <<"/", "v", "e", "r", "i", "f", "y", "-", "t", "i", "c", "k", "e", "t", "/">>
                       \o InvoiceNumberOfTicket
        /\ qrPayload # env.origin
                       \o <<"/", "v", "e", "r", "i", "f", "y", "-", "t", "i", "c", "k", "e", "t", "/">>
                       \o ticketData.id
        /\ saved = << <<"t", "i", "c", "k", "e", "t", "-">> \o InvoiceNumberOfTicket
                      \o <<".", "p", "d", "f">> >>
        /\ ~ticketData.combined.is_combined =>
               bookingIdLine = [label |-> "Booking ID:", lines |-> <<InvoiceNumberOfTicket>>]

\* a finished document of a booking that is not combined, with its QR image
C9_Witness ==
    /\ pc = "done"
    /\ ~ticketData.combined.is_combined
    /\ qrDrawn = "image"
    /\ Len(ticketData.id) > 6
    /\ Len(saved) = 1

\* C10: the file is saved at most once, only by the step that ends the
\* invocation and only after all seven sections were written in order; an
\* invocation that threw has saved nothing.
C10_SaveIsLastAndOnlyOnSuccess ==
    /\ Len(saved) <= 1
    /\ Len(saved) = 1 =>
           /\ pc = "done"
           /\ sections = <<"header", "eventDetails", "ticketInfo", "customerInfo",
                           "qr", "paymentSummary", "notices">>
    /\ pc = "threw" => Len(saved) = 0
    /\ pc = "done" => (Len(saved) = 1 /\ ~ENABLED Next)

\* a document saved although the QR encoding failed
C10_Witness ==
    /\ pc = "done"
    /\ qrDrawn = "placeholder"
    /\ Len(saved) = 1
    /\ Len(sections) = 7

\* C11: when the QR encoding fails the generation goes on: a bordered box with
\* the texts "QR Code" and "Error" is drawn at the QR position, the payment
\* summary and the notices are written after it, and the file is saved under the
\* name it has when the encoding succeeds, ticket-{invoice number}.pdf.  (The
\* payment summary of a ticketData without totalPrice throws with the image as
\* with the placeholder; the failure of the encoding itself never ends the call.)
C11_PlaceholderOnQrFailure ==
    qrDrawn = "placeholder" =>
        /\ qrBox = [border |-> TRUE, image |-> FALSE, texts |-> <<"QR Code", "Error">>]
        /\ (ticketData.prices.hasTotal \/ backendPricing.k = "pricing") =>
               /\ pc = "done"
               /\ sections = <<"header", "eventDetails", "ticketInfo", "customerInfo",
                               "qr", "paymentSummary", "notices">>
               /\ payment # NoPayment
               /\ saved = << <<"t", "i", "c", "k", "e", "t", "-">> \o InvoiceNumberOfTicket
                             \o <<".", "p", "d", "f">> >>

\* the encoding failed for a booking whose pricing could not be fetched
C11_Witness ==
    /\ qrDrawn = "placeholder"
    /\ pc = "done"
    /\ backendPricing.k = "null"
    /\ Len(saved) = 1
    /\ qrBox.border

BookingIdMissing == ticketData.id = <<>> \/ ticketData.id = <<"undefined">>

\* C12: when the booking id is missing from the input (absent or empty), the
\* generation raises an error before any page is created or drawn and saves no
\* file: it never gets as far as the QR code, and nothing is written or saved.
\* Stated for inputs whose other fields are all present.
C12_MissingBookingIdRaises ==
    (/\ BookingIdMissing
     /\ ticketData.customerInfo.k = "given"
     /\ ticketData.prices.hasTotal) =>
        /\ pc \notin {"awaitQR", "done"}
        /\ sections = <<>>
        /\ saved = <<>>

\* the text s contains the text sub
Contains(s, sub) ==
    \E i \in 1..(Len(s) - Len(sub) + 1) : SubSeq(s, i, i + Len(sub) - 1) = sub

DerivedFromInvalidDate(s) ==
    \/ Contains(s, <<"N", "a", "N">>)
    \/ Contains(s, <<"I", "n", "v", "a", "l", "i", "d", " ", "D", "a", "t", "e">>)

\* C13: for an unparsable booking date or event date the generation raises an
\* error or renders "TBA": neither the invoice number, the file name, the QR
\* payload nor the Date & Time line contains "Invalid Date" or "NaN".
C13_NoInvalidDateText ==
    (IsInvalidDate(ticketData.booking_date) \/ IsInvalidDate(ticketData.event.start_datetime)) =>
        /\ ~DerivedFromInvalidDate(formattedBookingId)
        /\ ~DerivedFromInvalidDate(qrPayload)
        /\ ~DerivedFromInvalidDate(dateTimeLine)
        /\ \A i \in 1..Len(saved) : ~DerivedFromInvalidDate(saved[i])

CustomerLinesWritten == backendPricing.k = "pricing" /\ pc \in {"awaitQR", "done"}

\* C14: whenever reconciliation returned a result, each of the Name, Email and
\* Phone lines under Customer Information is the booking record's value for that
\* field whenever that value is not empty, whatever the other two fields hold;
\* the caller's customerInfo never replaces a non-empty field of the booking.
C14_BookingRecordFieldsWin ==
    CustomerLinesWritten =>
        /\ Len(booking.row.customer.name) > 0 => customerLines.name = booking.row.customer.name
        /\ Len(booking.row.customer.email) > 0 =>
               customerLines.email = booking.row.customer.email
        /\ Len(booking.row.customer.phone) > 0 =>
               customerLines.phone = booking.row.customer.phone

\* C15: when the data source returns an empty customer name for the booking,
\* the Name line reads the literal "Guest User" (not a name from elsewhere).
C15_GuestUserForEmptyName ==
    (CustomerLinesWritten /\ Len(booking.row.customer.name) = 0) =>
        customerLines.name = <<"G", "u", "e", "s", "t", " ", "U", "s", "e", "r">>

\* mm/dd/yyyy of a calendar date and hh:mm AM/PM of a time of day
DateText(y, mo, d) ==
    TwoDigits(mo) \o <<"/">> \o TwoDigits(d) \o <<"/">> \o TwoDigits(y \div 100) \o TwoDigits(y)

ClockText(h, m) ==
    TwoDigits(IF h % 12 = 0 THEN 12 ELSE h % 12) \o <<":">> \o TwoDigits(m)
    \o <<" ">> \o (IF h >= 12 THEN <<"P">> ELSE <<"A">>) \o <<"M">>

DateTimeWritten == pc \in {"awaitQR", "done"}

RecurringWithOccurrence ==
    /\ ticketData.event.is_recurring
    /\ booking.k = "row"
    /\ backendPricing.k = "pricing"
    /\ booking.row.event_occurrences.k = "data"

\* the event's canonical time of day: the events row's, else the caller's
CanonicalTime ==
    IF booking.row.event_time.k = "time" THEN booking.row.event_time
    ELSE ticketData.event.event_time

\* C16: the Date & Time line follows the recurring-event rule.  For a recurring
\* event with occurrence data the date is the occurrence's date and the time is
\* the event's canonical time of day when present, else the occurrence's own
\* time; for a non-recurring event (with a valid start) they are the date and
\* time of the event's start, whatever occurrence data exists.
C16_RecurringEventRule ==
    DateTimeWritten =>
        /\ RecurringWithOccurrence =>
               dateTimeLine =
                   DateText(booking.row.event_occurrences.occurrence_date.y,
                            booking.row.event_occurrences.occurrence_date.mo,
                            booking.row.event_occurrences.occurrence_date.d)
                   \o <<" ", "a", "t", " ">>
                   \o (IF CanonicalTime.k = "time"
                       THEN ClockText(CanonicalTime.h, CanonicalTime.m)
                       ELSE ClockText(booking.row.event_occurrences.occurrence_time.h,
                                      booking.row.event_occurrences.occurrence_time.m))
        /\ (~ticketData.event.is_recurring /\ ~IsInvalidDate(ticketData.event.start_datetime)) =>
               dateTimeLine =
                   DateText(LocalDate(ticketData.event.start_datetime, env.tz).y,
                            LocalDate(ticketData.event.start_datetime, env.tz).mo,
                            LocalDate(ticketData.event.start_datetime, env.tz).d)
                   \o <<" ", "a", "t", " ">>
                   \o ClockText(LocalMinutes(ticketData.event.start_datetime, env.tz) \div 60,
                                LocalMinutes(ticketData.event.start_datetime, env.tz) % 60)

OccurrencePathProducedEntry == HasCategoryReference /\ categoryResult.k = "found"

SeatPathProducedEntries ==
    /\ ~OccurrencePathProducedEntry
    /\ booking.row.seat_numbers.k = "array"
    /\ Len(booking.row.seat_numbers.a) > 0

AllSeatsQuantity(seats) ==
    SeatsQuantity(seats, "VIP") + SeatsQuantity(seats, "Balcony") + SeatsQuantity(seats, "General")

AllSeatsSubtotal(seats) ==
    SeatsSubtotal(seats, "VIP") + SeatsSubtotal(seats, "Balcony") + SeatsSubtotal(seats, "General")

\* C19: the flat-total computation (basePrice = total_price - convenience_fee,
\* ticket count = booking.quantity) is applied only when neither the occurrence
\* category path nor the seat array path produced a breakdown entry; when one of
\* them did, the basePrice and the ticket count it computed are the ones returned.
C19_FlatTotalOnlyWithoutEntries ==
    PricingReturned =>
        /\ OccurrencePathProducedEntry =>
               /\ backendPricing.basePrice = categoryResult.base_price * booking.row.quantity
               /\ backendPricing.actualTotalQuantity = booking.row.quantity
        /\ SeatPathProducedEntries =>
               /\ backendPricing.basePrice = AllSeatsSubtotal(booking.row.seat_numbers.a)
               /\ backendPricing.actualTotalQuantity =
                      AllSeatsQuantity(booking.row.seat_numbers.a)

NoSeatsAssigned == Len(ticketData.selectedSeats) = 0

BreakdownAvailable ==
    /\ ticketData.event.is_recurring
    /\ backendPricing.k = "pricing"
    /\ Len(backendPricing.categoryBreakdown) > 0

SelectionsAvailable == Len(ticketData.selectedGeneralTickets) > 0

SeatArrayAvailable == ticketData.seat_numbers.k = "array"

PartsSet(parts) == {parts[i] : i \in 1..Len(parts)}

\* C20: when no seats are assigned, the Ticket Information summary is built from
\* exactly one source, in this priority: (a) the reconciled category breakdown if
\* the event is recurring and the breakdown is not empty, else (b) the caller's
\* general-ticket selections if not empty, else (c) a grouping of the raw seat
\* array by category, else (d) the single part "General x booking.quantity".
C20_SummarySourcePriority ==
    (ticketSummary.kind # "none" /\ NoSeatsAssigned) =>
        /\ ticketSummary.kind = "general"
        /\ BreakdownAvailable =>
               ticketSummary.parts =
                   [i \in 1..Len(backendPricing.categoryBreakdown) |->
                       [category |-> backendPricing.categoryBreakdown[i].category,
                        quantity |-> backendPricing.categoryBreakdown[i].quantity]]
        /\ (~BreakdownAvailable /\ SelectionsAvailable) =>
               ticketSummary.parts =
                   [i \in 1..Len(ticketData.selectedGeneralTickets) |->
                       [category |-> ticketData.selectedGeneralTickets[i].categoryName,
                        quantity |-> ticketData.selectedGeneralTickets[i].quantity]]
        /\ (~BreakdownAvailable /\ ~SelectionsAvailable /\ SeatArrayAvailable) =>
               /\ Len(ticketSummary.parts) = Cardinality(SeatLabels(ticketData.seat_numbers.a))
               /\ PartsSet(ticketSummary.parts) =
                      { [category |-> l,
                         quantity |-> SeatsQuantity(ticketData.seat_numbers.a, l)] :
                          l \in SeatLabels(ticketData.seat_numbers.a) }
        /\ (~BreakdownAvailable /\ ~SelectionsAvailable /\ ~SeatArrayAvailable) =>
               ticketSummary.parts =
                   <<[category |-> "General", quantity |-> ticketData.quantity]>>

\* the breakdown is shown although selections and a seat array were supplied too
C20_Witness ==
    /\ pc = "done"
    /\ NoSeatsAssigned
    /\ BreakdownAvailable
    /\ SelectionsAvailable
    /\ SeatArrayAvailable
    /\ Len(ticketData.seat_numbers.a) = 3
    /\ ticketSummary.parts = <<[category |-> "Gold", quantity |-> 1]>>

\* the grouping of a raw seat array with two seats of one category
C20_WitnessSeatArray ==
    /\ pc = "done"
    /\ NoSeatsAssigned
    /\ ~BreakdownAvailable
    /\ ~SelectionsAvailable
    /\ ticketSummary.parts = <<[category |-> "VIP", quantity |-> 3],
                                [category |-> "General", quantity |-> 3]>>

\* what invocation i draws and saves when it runs alone: it depends on its own
\* ticketData and on what its own awaits settled with
OwnInvoiceNumber(i) ==
    GenerateInvoiceNumber(calls.of[i].ticketData.id, calls.of[i].ticketData.booking_date,
                          env.tz)

OwnFileName(i) == <<"t", "i", "c", "k", "e", "t", "-">> \o OwnInvoiceNumber(i)
                  \o <<".", "p", "d", "f">>

\* C17: two invocations whose steps interleave at their awaits share no mutable
\* state: they never hold the same document, and each one that finishes has
\* drawn into its own document the sections, the booking id and the payment
\* summary of its own input, and has saved its own file name, as when run alone.
C17_InterleavedCallsAreIndependent ==
    /\ \A i \in 1..Len(calls.of), j \in 1..Len(calls.of) :
           (i # j /\ calls.of[i].doc # 0) => calls.of[i].doc # calls.of[j].doc
    /\ \A i \in 1..Len(calls.of) :
           calls.of[i].pc = "done" =>
               /\ calls.docs[calls.of[i].doc].sections =
                      <<"header", "eventDetails", "ticketInfo", "customerInfo",
                        "qr", "paymentSummary", "notices">>
               /\ calls.docs[calls.of[i].doc].bookingIdLine =
                      [label |-> "Booking ID:", lines |-> <<OwnInvoiceNumber(i)>>]
               /\ calls.docs[calls.of[i].doc].payment =
                      PaymentSummary(calls.of[i].ticketData, calls.of[i].backendPricing)
               /\ calls.of[i].qrPayload =
                      env.origin
                      \o <<"/", "v", "e", "r", "i", "f", "y", "-", "t", "i", "c", "k", "e", "t", "/">>
                      \o OwnInvoiceNumber(i)
               /\ \E k \in 1..Len(calls.downloads) : calls.downloads[k] = OwnFileName(i)
    /\ Len(calls.downloads) =
           Cardinality({i \in 1..Len(calls.of) : calls.of[i].pc = "done"})

\* both invocations finished, the second one first, for different bookings
C17_Witness ==
    /\ Len(calls.of) = 2
    /\ calls.of[1].pc = "done"
    /\ calls.of[2].pc = "done"
    /\ calls.of[1].ticketData.id # calls.of[2].ticketData.id
    /\ calls.of[1].doc = 2
    /\ calls.downloads = <<OwnFileName(2), OwnFileName(1)>>

\* C18: every invocation eventually ends, by saving the file or by throwing,
\* provided each awaited call eventually settles; and the page-break loop writes
\* each line of the text once and adds at most one page per line.
C18_EveryInvocationEnds ==
    /\ <>(pc \in {"done", "threw"})
    /\ [](flow.pages <= flow.written /\ flow.written + flow.lines <= MaxLines)

\* a finished invocation whose text broke onto a new page and went on there
C18_Witness ==
    /\ pc = "done"
    /\ flow.state = "returned"
    /\ flow.pages = 1
    /\ flow.written = 3
    /\ flow.currentY = NewPageStartY + 2 * LineHeight

(***************************************************************************)
(* The page-space check and its callers.                                   *)
(***************************************************************************)
Fits(y, required) == y + required <= PageHeight - BottomMargin
ChecksMade == { cursor.checks[i] : i \in 1..Len(cursor.checks) }
PageInserted(c) == c.pagesAfter = c.pagesBefore + 1

YBeforeLine(i) == IF i = 1 THEN flow.startY ELSE flow.drawn[i - 1].y + LineHeight
PageBeforeLine(i) == IF i = 1 THEN 0 ELSE flow.drawn[i - 1].page

\* C22: addResponsiveText writes the wrapped lines in order, advances y by
\* lineHeight after each line, inserts a new page (continuing at the page start)
\* before exactly the lines that would not fit, so every line drawn has
\* y + lineHeight <= pageHeight - 20, and it returns the y after the last line.
C22_LinesDrawnInsideThePage ==
    flow.state \in {"running", "returned"} =>
        /\ Len(flow.drawn) = flow.written
        /\ \A i \in 1..Len(flow.drawn) :
              LET d == flow.drawn[i]
                  fits == YBeforeLine(i) + LineHeight <= PageHeight - BottomMargin
              IN /\ d.line = i
                 /\ d.y + LineHeight <= PageHeight - BottomMargin
                 /\ fits => d.page = PageBeforeLine(i) /\ d.y = YBeforeLine(i)
                 /\ ~fits => d.page = PageBeforeLine(i) + 1 /\ d.y = NewPageStartY
        /\ flow.currentY = YBeforeLine(flow.written + 1)
        /\ flow.pages = PageBeforeLine(flow.written + 1)

\* three lines handed in near the bottom: one fits, the next starts a new page
C22_Witness ==
    /\ flow.state = "returned"
    /\ flow.startY = 2700
    /\ Len(flow.drawn) = 3
    /\ flow.drawn[1] = [line |-> 1, page |-> 0, y |-> 2700]
    /\ flow.drawn[2] = [line |-> 2, page |-> 1, y |-> NewPageStartY]
    /\ flow.currentY = NewPageStartY + 2 * LineHeight

(***************************************************************************)
(* The layout of a page size.                                              *)
(***************************************************************************)
TierConstants(config) == <<config.headerHeight, config.lineHeight, config.sectionSpacing>>
TiersThatApply(w, h) ==
    { t \in {"small", "medium", "large"} :
        \/ t = "small" /\ IsSmallFormat(w, h)
        \/ t = "medium" /\ IsMediumFormat(w)
        \/ t = "large" /\ IsLargeFormat(w) }

\* C23: headerHeight, lineHeight and sectionSpacing are a function of the page
\* width alone (the same width with another height gets the same constants),
\* and exactly one of the tiers small / medium / large applies to the page.
C23_TierIsFunctionOfWidth ==
    layout.state = "computed" =>
        /\ \A h \in PageHeights :
              TierConstants(GetResponsiveConfig(layout.pageWidth, h))
                  = TierConstants(layout.config)
        /\ Cardinality(TiersThatApply(layout.pageWidth, layout.pageHeight)) = 1

\* C24: the stacked flag is true for every page width below 150 and false for
\* every width from 150 on; when it is true the left and the right column have
\* the same x-origin and the same width.
C24_StackedBelowThreshold ==
    layout.state = "computed" =>
        /\ layout.columns.useStacked <=> layout.pageWidth < 150
        /\ layout.columns.useStacked =>
              /\ layout.columns.leftColumnX = layout.columns.rightColumnX
              /\ layout.columns.leftColumnWidth = layout.columns.rightColumnWidth

\* the widest stacked page: both columns start at 11 mm and are 127 mm wide
C24_Witness ==
    /\ layout.state = "computed"
    /\ layout.pageWidth = 149
    /\ layout.columns.useStacked
    /\ layout.columns.rightColumnX = 11000
    /\ layout.columns.rightColumnWidth = 127000

\* C29: for every page size both column widths are strictly positive and the
\* right column ends inside the page (rightColumnX + rightColumnWidth is at
\* most pageWidth - margin).
C29_ColumnsInsideThePage ==
    layout.state = "computed" =>
        /\ layout.columns.leftColumnWidth > 0
        /\ layout.columns.rightColumnWidth > 0
        /\ layout.columns.rightColumnX + layout.columns.rightColumnWidth
             <= 1000 * layout.pageWidth - layout.config.margin

\* the part of C29 that does hold: the right column ends inside the page
C29_RightColumnEndsInsideThePage ==
    layout.state = "computed" =>
        layout.columns.rightColumnX + layout.columns.rightColumnWidth
            <= 1000 * layout.pageWidth - layout.config.margin

(***************************************************************************)
(* The Payment Summary as a sum.                                           *)
(***************************************************************************)
RECURSIVE SumOfLines(_)
SumOfLines(lines) == IF lines = <<>> THEN 0 ELSE Head(lines) + SumOfLines(Tail(lines))

\* the fraction shown on an optional line, 0 when the line is absent
LineAmount(line) == IF line = <<>> THEN Frac(0, 1) ELSE line[1]

\* C25: in every Payment Summary made from a loaded booking the ticket lines
\* (category line totals or the single ticket line) plus the pre-tax convenience
\* fee plus the GST amount equal the displayed Total Amount.
C25_PaymentLinesAddUp ==
    (pc = "done" /\ backendPricing.k = "pricing") =>
        LET fee == LineAmount(payment.feeLine)
            gst == LineAmount(payment.gstLine)
        IN (SumOfLines(payment.ticketLines) - payment.totalLine[1]) * fee.d * gst.d
             + fee.n * gst.d + gst.n * fee.d = 0

\* C26: every categoryBreakdown entry returned by fetchPricingData has
\* totalPrice = unitPrice * quantity, also when seats of one category carry
\* different prices.
C26_EntryTotalIsUnitTimesQuantity ==
    PricingReturned =>
        \A i \in 1..Len(backendPricing.categoryBreakdown) :
            LET e == backendPricing.categoryBreakdown[i]
            IN e.totalPrice * e.unitPrice.d = e.unitPrice.n * e.quantity

\* C27: two bookings with different booking ids never receive the same invoice
\* number, and hence never the same verification URL or file name, also when
\* they were made on the same date.
C27_InvoiceNumbersIdentifyBookings ==
    (pc = "pairDone" /\ invArgs[1].id # invArgs[2].id) =>
        /\ invOut[1] # invOut[2]
        /\ VerificationUrl(env.origin, invArgs[1].id, invOut[1])
             # VerificationUrl(env.origin, invArgs[2].id, invOut[2])
        /\ FileName(invOut[1]) # FileName(invOut[2])

(***************************************************************************)
(* The blocks of the two-column page.                                      *)
(***************************************************************************)
BlocksPlaced == { cursor.blocks[i] : i \in 1..Len(cursor.blocks) }
BlockNamed(name) == CHOOSE b \in BlocksPlaced : b.name = name

\* C28: the Ticket Information block is drawn on the page of the Event Details
\* heading, at the y where the event details started (detailsStartY), also when
\* the Event Details text ran over to a continuation page; and no block is
\* drawn at a y that was computed on an earlier page.
C28_TicketBlockBesideEventDetails ==
    cursor.state \in {"ticketInfo", "customerInfo", "qr", "payment"} =>
        /\ BlockNamed("Ticket Information").page = BlockNamed("Event Details").page
        /\ BlockNamed("Ticket Information").y = cursor.detailsStartY
        /\ \A b \in BlocksPlaced : b.from = b.page

(***************************************************************************)
(* useSimilarEvents when the parameters change during a fetch.             *)
(***************************************************************************)
AllFetchesSettled ==
    /\ hook.state = "mounted"
    /\ \A i \in 1..Len(hook.runs) : hook.runs[i].stage \in {"skipped", "settled"}

LatestRun == hook.runs[Len(hook.runs)]

\* C30: once all fetches have settled after a change of (eventId, category,
\* city) during a fetch, similarEvents holds the list the fetch for the latest
\* parameters delivered (an earlier request's late response does not overwrite
\* it), and loading is false.
C30_LatestParametersWin ==
    (AllFetchesSettled /\ Len(hook.runs) >= 2 /\ LatestRun.stage = "settled") =>
        /\ hook.similarEvents = LatestRun.delivered
        /\ ~hook.loading

\* the part of C30 about the loading flag, which holds
C30_LoadingFalseWhenAllSettled ==
    AllFetchesSettled => ~hook.loading

====
